---- MODULE Spec2Model ----
(***************************************************************************)
(* A model of the course-outline extractor (KalpKan/Plato):                *)
(*   - src/src/rule_resolver.py         RuleResolver                        *)
(*   - src/src/assessment_extractor.py  PolicyWindowFilter,                 *)
(*       AssessmentCandidateGenerator, AssessmentScorer,                    *)
(*       ConstrainedSelector, AssessmentExtractor                           *)
(*                                                                         *)
(* Conventions.                                                            *)
(*   - Python str is a TLA+ string; every string function works on         *)
(*     characters (SubSeq, Len, \o), as the code does.                      *)
(*   - Optional[x] is a sequence: None == <<>>, a value v is <<v>>.          *)
(*     Optional[str] fields that the code only tests for truthiness        *)
(*     (due_rule, rule_anchor, rejection_reason) are "" when None.          *)
(*   - A date is a day number; day 0 is a Monday (2026-01-05), so           *)
(*     date.weekday() is d % 7.  A datetime is the number of hours since    *)
(*     day 0, 00:00; a timedelta is a number of hours.                      *)
(*   - Weights are percent points (integers); scores and confidences are    *)
(*     in units of 0.0001 (0.30 is 3000), fine enough to keep the order of   *)
(*     float sums that differ in their last bit.                            *)
(***************************************************************************)
EXTENDS Integers, Sequences, FiniteSets, TLC

VARIABLES
    pc,                   \* which operation of the component has run
    \* ---- RuleResolver and its caller
    assessments,          \* the caller's list of AssessmentTask objects
    sections,             \* List[SectionOption] handed to the resolver
    term,                 \* CourseTerm: <<start_date, end_date>>
    entered,              \* the tasks as they were before the last pass
    resolved,             \* the list resolve_rules returned
    generated,            \* the list generate_per_occurrence_assessments returned
    passes,               \* number of resolve_rules passes made
    \* ---- ConstrainedSelector
    candidates,           \* the list handed to select (the filtered candidates)
    selected,             \* the list select returned
    \* ---- PolicyWindowFilter
    candidate,            \* the AssessmentCandidate handed to filter_candidate
    rejected,             \* what filter_candidate returned
    \* ---- AssessmentExtractor
    doc,                  \* the DocumentStructure (and PDF text) given at construction
    all_candidates,       \* self.all_candidates
    rejected_candidates,  \* self.rejected_candidates
    selected_candidates,  \* self.selected_candidates
    extracted,            \* the list of AssessmentTask objects extract returned
    runs,                 \* number of calls of extract
    \* ---- DocumentStructureExtractor
    pdf,                  \* the PDF file at pdf_path and the libraries that read it
    structure,            \* the DocumentStructureExtractor object (self)
    open_handles,         \* number of document handles opened and not closed
    raised,               \* whether the call was left by an exception
    from_tables,          \* what the candidate generator makes of the tables
    \* ---- AssessmentExtractor._infer_type
    typed_title,          \* the title of a selected candidate
    task_type,            \* the type _infer_type gave it
    \* ---- CourseInfoExtractor
    course_doc,           \* the DocumentStructure given at construction
    course_info,          \* the tuple (course_code, course_title) extract returned
    \* ---- CacheManager
    extraction_cache,     \* table extraction_cache: pdf_hash -> row
    user_choices,         \* table user_choices: the rows in insertion order
    clock,                \* datetime.now(), in ticks
    last_stored,          \* per pdf_hash, the extraction the last store for it was given
    last_choices,         \* per <<pdf_hash, session_id>>, the selections stored for it last
    cache_result          \* the last lookup made and what it returned

resolverVars == <<assessments, sections, term, entered, resolved, generated, passes>>
selectorVars == <<candidates, selected>>
filterVars == <<candidate, rejected>>
extractorVars ==
    <<doc, all_candidates, rejected_candidates, selected_candidates, extracted, runs>>
structureVars == <<pdf, structure, open_handles, raised, from_tables>>
typeVars == <<typed_title, task_type>>
earlierVars == <<resolverVars, selectorVars, filterVars, extractorVars>>
courseVars == <<course_doc, course_info>>
cacheVars == <<extraction_cache, user_choices, clock, last_stored, last_choices, cache_result>>
laterVars == <<structureVars, typeVars, courseVars, cacheVars>>
besidesStructure == <<earlierVars, typeVars, courseVars, cacheVars>>
besidesType == <<earlierVars, structureVars, courseVars, cacheVars>>
besidesCourse == <<earlierVars, structureVars, typeVars, cacheVars>>
besidesCache == <<earlierVars, structureVars, typeVars, courseVars>>
vars == <<pc, resolverVars, selectorVars, filterVars, extractorVars, laterVars>>

None == <<>>
Some(v) == <<v>>

\* Body applied to value, which is computed once (a local variable)
With(value, Body(_)) == CHOOSE r \in { Body(v) : v \in {value} } : TRUE

\* the components a specification does not exercise stay as constructed
NoResolver ==
    /\ assessments = <<>> /\ sections = <<>> /\ term = <<0, 0>> /\ entered = <<>>
    /\ resolved = <<>> /\ generated = <<>> /\ passes = 0
NoSelector == candidates = <<>> /\ selected = <<>>
NoFilter == candidate = None /\ rejected = None
NoExtractor ==
    /\ doc = None /\ all_candidates = <<>> /\ rejected_candidates = <<>>
    /\ selected_candidates = <<>> /\ extracted = <<>> /\ runs = 0
NoStructure ==
    /\ pdf = None /\ structure = None /\ open_handles = 0 /\ raised = FALSE
    /\ from_tables = <<>>
NoType == typed_title = "" /\ task_type = ""
NoCourse == course_doc = None /\ course_info = None
NoCache ==
    /\ extraction_cache = <<>> /\ user_choices = <<>> /\ clock = 0
    /\ last_stored = <<>> /\ last_choices = <<>> /\ cache_result = None
NoLater == NoStructure /\ NoType /\ NoCourse /\ NoCache
NoEarlier == NoResolver /\ NoSelector /\ NoFilter /\ NoExtractor
OnlyStructure == NoEarlier /\ NoType /\ NoCourse /\ NoCache
OnlyType == NoEarlier /\ NoStructure /\ NoCourse /\ NoCache
OnlyCourse == NoEarlier /\ NoStructure /\ NoType /\ NoCache
OnlyCache == NoEarlier /\ NoStructure /\ NoType /\ NoCourse

-----------------------------------------------------------------------------
(* Bounds of the model *)

MaxTasks == 2
LastDay == 20
MaxPasses == 2
MaxCandidates == 4
MaxFiller == 13
MaxRows == 3
MaxRuns == 2
MaxPages == 2
MaxSpans == 2
MaxLines == 3
MaxBlocks == 3
MaxStores == 3

-----------------------------------------------------------------------------
(* Python str operations, character by character *)

Char(s, i) == SubSeq(s, i, i)

UpperSet ==
    {"A", "B", "C", "D", "E", "F", "G", "H", "I", "J", "K", "L", "M", "N", "O", "P", "Q", "R", "S", "T", "U", "V", "W", "X", "Y", "Z"}
LowerSet ==
    {"a", "b", "c", "d", "e", "f", "g", "h", "i", "j", "k", "l", "m", "n", "o", "p", "q", "r", "s", "t", "u", "v", "w", "x", "y", "z"}
DigitSet == {"0", "1", "2", "3", "4", "5", "6", "7", "8", "9"}

\* str.lower() and str.upper() of one character
LowerOf ==
    ("A" :> "a") @@ ("B" :> "b") @@ ("C" :> "c") @@ ("D" :> "d") @@ ("E" :> "e") @@ ("F" :> "f") @@
    ("G" :> "g") @@ ("H" :> "h") @@ ("I" :> "i") @@ ("J" :> "j") @@ ("K" :> "k") @@ ("L" :> "l") @@
    ("M" :> "m") @@ ("N" :> "n") @@ ("O" :> "o") @@ ("P" :> "p") @@ ("Q" :> "q") @@ ("R" :> "r") @@
    ("S" :> "s") @@ ("T" :> "t") @@ ("U" :> "u") @@ ("V" :> "v") @@ ("W" :> "w") @@ ("X" :> "x") @@
    ("Y" :> "y") @@ ("Z" :> "z")
UpperOf ==
    ("a" :> "A") @@ ("b" :> "B") @@ ("c" :> "C") @@ ("d" :> "D") @@ ("e" :> "E") @@ ("f" :> "F") @@
    ("g" :> "G") @@ ("h" :> "H") @@ ("i" :> "I") @@ ("j" :> "J") @@ ("k" :> "K") @@ ("l" :> "L") @@
    ("m" :> "M") @@ ("n" :> "N") @@ ("o" :> "O") @@ ("p" :> "P") @@ ("q" :> "Q") @@ ("r" :> "R") @@
    ("s" :> "S") @@ ("t" :> "T") @@ ("u" :> "U") @@ ("v" :> "V") @@ ("w" :> "W") @@ ("x" :> "X") @@
    ("y" :> "Y") @@ ("z" :> "Z")
DigitValue ==
    ("0" :> 0) @@ ("1" :> 1) @@ ("2" :> 2) @@ ("3" :> 3) @@ ("4" :> 4) @@ ("5" :> 5) @@ ("6" :> 6) @@ ("7" :> 7) @@ ("8" :> 8) @@ ("9" :> 9)

IsDigit(c) == c \in DigitSet
IsUpper(c) == c \in UpperSet
IsLower(c) == c \in LowerSet
IsAlpha(c) == IsUpper(c) \/ IsLower(c)
IsSpace(c) == c \in {" ", "\t", "\n", "\r"}
IsWordChar(c) == IsAlpha(c) \/ IsDigit(c) \/ c = "_"

LowerChar(c) == IF IsUpper(c) THEN LowerOf[c] ELSE c
UpperChar(c) == IF IsLower(c) THEN UpperOf[c] ELSE c

RECURSIVE Lower(_)
Lower(s) ==
    IF Len(s) = 0 THEN ""
    ELSE IF Len(s) = 1 THEN LowerChar(s)
    ELSE LET h == Len(s) \div 2
         IN  Lower(SubSeq(s, 1, h)) \o Lower(SubSeq(s, h + 1, Len(s)))

MatchAt(s, p, i) == i >= 1 /\ i + Len(p) - 1 <= Len(s) /\ SubSeq(s, i, i + Len(p) - 1) = p
Contains(s, p) == \E i \in 1..(Len(s) - Len(p) + 1) : MatchAt(s, p, i)
StartsWith(s, p) == MatchAt(s, p, 1)

\* first index >= i of s that holds no whitespace (Len(s)+1 when there is none)
RECURSIVE SkipSpaces(_, _)
SkipSpaces(s, i) ==
    IF i <= Len(s) /\ IsSpace(Char(s, i)) THEN SkipSpaces(s, i + 1) ELSE i

\* last index of the run of digits that starts at i (i-1 when s[i] is no digit)
RECURSIVE DigitRunEnd(_, _)
DigitRunEnd(s, i) ==
    IF i <= Len(s) /\ IsDigit(Char(s, i)) THEN DigitRunEnd(s, i + 1) ELSE i - 1

\* int("...") of a string of digits
RECURSIVE ToInt(_)
ToInt(s) ==
    IF s = "" THEN 0
    ELSE 10 * ToInt(SubSeq(s, 1, Len(s) - 1)) + DigitValue[Char(s, Len(s))]

\* str.strip()
RECURSIVE RStrip(_)
RStrip(s) == IF s # "" /\ IsSpace(Char(s, Len(s))) THEN RStrip(SubSeq(s, 1, Len(s) - 1)) ELSE s
Strip(s) == LET t == RStrip(s) IN SubSeq(t, SkipSpaces(t, 1), Len(t))

\* str.replace(old, new), old non-empty: every occurrence, left to right
RECURSIVE Replace(_, _, _)
Replace(s, old, new) ==
    IF s = "" THEN ""
    ELSE IF MatchAt(s, old, 1)
         THEN new \o Replace(SubSeq(s, Len(old) + 1, Len(s)), old, new)
         ELSE Char(s, 1) \o Replace(Tail(s), old, new)

SetMax(S) == CHOOSE m \in S : \A x \in S : x <= m
Min2(a, b) == IF a <= b THEN a ELSE b
Max2(a, b) == IF a >= b THEN a ELSE b

-----------------------------------------------------------------------------
(* models.py: the records *)

\* AssessmentTask (models.py:55-71)
AssessmentTask(title, type, weight, due, rule, anchor, conf, evidence, review) ==
    [title |-> title, type |-> type, weight_percent |-> weight,
     due_datetime |-> due, due_rule |-> rule, rule_anchor |-> anchor,
     confidence |-> conf, source_evidence |-> evidence, needs_review |-> review]

\* SectionOption (models.py:38-51); date_range is None or <<<<start, end>>>>
SectionOption(type, id, days, start, range) ==
    [section_type |-> type, section_id |-> id, days_of_week |-> days,
     start_time |-> start, date_range |-> range]

\* date.weekday(): 0 = Monday
weekday(d) == d % 7

\* datetime.combine(date, time), the time being a whole hour
combine(d, t) == d * 24 + t

-----------------------------------------------------------------------------
(* rule_resolver.py: RuleResolver *)

\* an anchor lookup without the tutorial-as-lab fallback
_find_anchor_section_NoAlias(anchor, secs) ==
    LET anchor_lower == Lower(anchor)
        hit(i) == LET section_type_lower == Lower(secs[i].section_type)
                  IN  Contains(section_type_lower, anchor_lower)
                      \/ Contains(anchor_lower, section_type_lower)
    IN  IF \E i \in 1..Len(secs) : hit(i)
        THEN Some(secs[CHOOSE i \in 1..Len(secs) : hit(i) /\ \A j \in 1..(i - 1) : ~hit(j)])
        ELSE None

\* _find_anchor_section: the first section whose type contains the anchor or
\* is contained in it; for "tutorial", failing that, the first "lab" section
_find_anchor_section(anchor, secs) ==
    LET anchor_lower == Lower(anchor)
        hit(i) == LET section_type_lower == Lower(secs[i].section_type)
                  IN  Contains(section_type_lower, anchor_lower)
                      \/ Contains(anchor_lower, section_type_lower)
        lab(i) == Lower(secs[i].section_type) = "lab"
        First(P(_)) == CHOOSE i \in 1..Len(secs) : P(i) /\ \A j \in 1..(i - 1) : ~P(j)
    IN  IF \E i \in 1..Len(secs) : hit(i) THEN Some(secs[First(hit)])
        ELSE IF anchor_lower = "tutorial" /\ \E i \in 1..Len(secs) : lab(i)
             THEN Some(secs[First(lab)])
             ELSE None

\* re.search(r'(\d+)\s+<unit>s?', rule_text, re.IGNORECASE) matches at i;
\* low is the rule text in lower case
UnitMatchAt(low, unit, i) ==
    /\ i <= Len(low)
    /\ IsDigit(Char(low, i))
    /\ LET e == DigitRunEnd(low, i)
           j == SkipSpaces(low, e + 1)
       IN  j > e + 1 /\ MatchAt(low, unit, j)

\* where the leftmost match starts (0: no match)
RECURSIVE FindUnit(_, _, _)
FindUnit(low, unit, i) ==
    IF i > Len(low) THEN 0
    ELSE IF UnitMatchAt(low, unit, i) THEN i
    ELSE FindUnit(low, unit, i + 1)

\* int(match.group(1)) of the leftmost match, None when there is no match
UnitSearch(rule_text, unit) ==
    LET low == Lower(rule_text)
        i == FindUnit(low, unit, 1)
    IN  IF i = 0 THEN None ELSE Some(ToInt(SubSeq(low, i, DigitRunEnd(low, i))))

\* _parse_rule_offset: hours, else days, else weeks, as a timedelta (hours)
_parse_rule_offset(rule_text) ==
    LET hours_match == UnitSearch(rule_text, "hour")
        days_match == UnitSearch(rule_text, "day")
        weeks_match == UnitSearch(rule_text, "week")
    IN  IF hours_match # None THEN Some(hours_match[1])
        ELSE IF days_match # None THEN Some(24 * days_match[1])
        ELSE IF weeks_match # None THEN Some(168 * weeks_match[1])
        ELSE None

\* the first while loop of _generate_occurrences: the first matching date
RECURSIVE FirstOccurrence(_, _, _)
FirstOccurrence(current_date, end_date, days) ==
    IF current_date > end_date THEN None
    ELSE IF weekday(current_date) \in days THEN Some(current_date)
    ELSE FirstOccurrence(current_date + 1, end_date, days)

\* the second while loop: emit on a matching weekday; step a week after the
\* section's largest weekday, a day otherwise
RECURSIVE WalkOccurrences(_, _, _, _)
WalkOccurrences(current_date, end_date, section, occurrences) ==
    IF current_date > end_date THEN occurrences
    ELSE LET emitted == IF weekday(current_date) \in section.days_of_week
                        THEN Append(occurrences, combine(current_date, section.start_time))
                        ELSE occurrences
             step == IF weekday(current_date) = SetMax(section.days_of_week) THEN 7 ELSE 1
         IN  WalkOccurrences(current_date + step, end_date, section, emitted)

_generate_occurrences(section, trm) ==
    LET range == IF section.date_range # None THEN section.date_range[1] ELSE trm
        start_date == range[1]
        end_date == range[2]
        first_occurrence == FirstOccurrence(start_date, end_date, section.days_of_week)
    IN  IF first_occurrence = None THEN <<>>
        ELSE WalkOccurrences(first_occurrence[1], end_date, section, <<>>)

\* a failure path that leaves the flag unset
MarkNeedsReview_Unflagged(assessment) == assessment

\* every failure path of resolve_rule: assessment.needs_review = True; return
MarkNeedsReview(assessment) == [assessment EXCEPT !.needs_review = TRUE]

\* a resolve_rule that adds the 0.2 without the cap of min(..., 1.0)
resolve_rule_Uncapped(assessment, secs, trm) ==
    IF assessment.due_rule = "" \/ assessment.rule_anchor = "" THEN MarkNeedsReview(assessment)
    ELSE LET anchor_section == _find_anchor_section(assessment.rule_anchor, secs)
         IN  IF anchor_section = None THEN MarkNeedsReview(assessment)
             ELSE LET offset == _parse_rule_offset(assessment.due_rule)
                  IN  IF offset = None THEN MarkNeedsReview(assessment)
                      ELSE LET occurrences == _generate_occurrences(anchor_section[1], trm)
                           IN  IF occurrences = <<>> THEN MarkNeedsReview(assessment)
                               ELSE [assessment EXCEPT
                                       !.due_datetime = Some(occurrences[1] + offset[1]),
                                       !.confidence = assessment.confidence + 2000,
                                       !.needs_review = TRUE]

\* resolve_rule: the task as it leaves (it is updated in place)
resolve_rule(assessment, secs, trm) ==
    IF assessment.due_rule = "" \/ assessment.rule_anchor = "" THEN MarkNeedsReview(assessment)
    ELSE LET anchor_section == _find_anchor_section(assessment.rule_anchor, secs)
         IN  IF anchor_section = None THEN MarkNeedsReview(assessment)
             ELSE LET offset == _parse_rule_offset(assessment.due_rule)
                  IN  IF offset = None THEN MarkNeedsReview(assessment)
                      ELSE LET occurrences == _generate_occurrences(anchor_section[1], trm)
                           IN  IF occurrences = <<>> THEN MarkNeedsReview(assessment)
                               ELSE [assessment EXCEPT
                                       !.due_datetime = Some(occurrences[1] + offset[1]),
                                       !.confidence = Min2(assessment.confidence + 2000, 10000),
                                       !.needs_review = TRUE]

\* a resolve_rules that resolves every task with a rule, dated or not
resolve_rules_Redated(tasks, secs, trm) ==
    [i \in 1..Len(tasks) |->
        IF tasks[i].due_rule # ""
        THEN resolve_rule(tasks[i], secs, trm)
        ELSE tasks[i]]

\* resolve_rules: resolve_rule on every task with a rule and no timestamp
resolve_rules(tasks, secs, trm) ==
    [i \in 1..Len(tasks) |->
        IF tasks[i].due_rule # "" /\ tasks[i].due_datetime = None
        THEN resolve_rule(tasks[i], secs, trm)
        ELSE tasks[i]]

\* generate_per_occurrence_assessments
generate_per_occurrence_assessments(assessment_template, anchor_section, trm) ==
    IF assessment_template.due_rule = "" THEN <<assessment_template>>
    ELSE LET offset == _parse_rule_offset(assessment_template.due_rule)
         IN  IF offset = None THEN <<assessment_template>>
             ELSE LET occurrences == _generate_occurrences(anchor_section, trm)
                      base_title == Replace(assessment_template.title, " (auto)", "")
                  IN  IF occurrences = <<>> THEN <<assessment_template>>
                      ELSE [i \in 1..Len(occurrences) |->
                              AssessmentTask(base_title \o " " \o ToString(i),
                                             assessment_template.type,
                                             assessment_template.weight_percent,
                                             Some(occurrences[i] + offset[1]),
                                             "", "",
                                             assessment_template.confidence,
                                             assessment_template.source_evidence,
                                             TRUE)]


-----------------------------------------------------------------------------
(* The resolver's caller (main.py:353-359, app.py:420): inputs and operations *)

\* the tasks a caller hands over: with and without a rule, with an anchor
\* that no section has, with a rule that has no number, already dated
TaskPool ==
    { AssessmentTask("Lab Report", "lab", Some(5), None, "24 hours after lab", "lab", 5000, "", FALSE),
      AssessmentTask("Reflection (auto)", "other", None, None, "due 2 days after lecture", "lecture", 9000, "", FALSE),
      AssessmentTask("Tutorial Quiz", "quiz", Some(10), None, "1 week after tutorial", "tutorial", 7000, "", FALSE),
      AssessmentTask("Worksheet", "other", None, None, "the day after lab", "lab", 5000, "", FALSE),
      AssessmentTask("Essay", "other", Some(20), None, "0 hours after seminar", "seminar", 5000, "", FALSE),
      AssessmentTask("Journal", "other", None, None, "48 hours after lab", "", 6500, "", FALSE),
      AssessmentTask("Midterm", "midterm", Some(30), Some(250), "", "", 8000, "", FALSE) }

SectionLists ==
    LET lab == SectionOption("Lab", "002", {2}, 14, None)
        lecture == SectionOption("Lecture", "001", {0, 2}, 10, None)
        idle == SectionOption("Lab", "003", {}, 9, None)
        late == SectionOption("Lab", "004", {1, 3}, 9, Some(<<7, 13>>))
        seminar == SectionOption("Seminar", "", {4}, 0, None)
    IN  { <<>>, <<lab>>, <<lecture>>, <<idle, lab>>, <<late>>, <<lecture, lab>>,
          <<lecture, late>>, <<seminar, lecture>> }

\* <<start_date, end_date>>: a term of several weeks, a one-day term, and a
\* term that ends before it starts
TermPool == { <<0, LastDay>>, <<3, 8>>, <<1, 1>>, <<5, 4>> }

TaskLists == UNION { [1..n -> TaskPool] : n \in 1..MaxTasks }

InitResolver ==
    /\ pc = "ready"
    /\ assessments \in TaskLists
    /\ sections \in SectionLists
    /\ term \in TermPool
    /\ entered = assessments
    /\ resolved = <<>>
    /\ generated = <<>>
    /\ passes = 0
    /\ NoSelector
    /\ NoFilter
    /\ NoExtractor
    /\ NoLater

\* the caller runs resolver.resolve_rules(assessments, sections, term) and
\* keeps the returned list; the tasks themselves are updated in place
ResolveRules ==
    /\ pc \in {"ready", "resolved"}
    /\ passes < MaxPasses
    /\ entered' = assessments
    /\ assessments' = resolve_rules(assessments, sections, term)
    /\ resolved' = assessments'
    /\ passes' = passes + 1
    /\ pc' = "resolved"
    /\ UNCHANGED <<sections, term, generated, selectorVars, filterVars, extractorVars, laterVars>>

\* a caller expands one task over one section's occurrences
GeneratePerOccurrence ==
    /\ pc = "ready"
    /\ \E i \in 1..Len(assessments), j \in 1..Len(sections) :
          generated' = generate_per_occurrence_assessments(assessments[i], sections[j], term)
    /\ pc' = "generated"
    /\ UNCHANGED <<assessments, sections, term, entered, resolved, passes, selectorVars, filterVars, extractorVars, laterVars>>

NextResolver == ResolveRules \/ GeneratePerOccurrence

SpecResolver == InitResolver /\ [][NextResolver]_vars


-----------------------------------------------------------------------------
(* assessment_extractor.py: AssessmentCandidate and ConstrainedSelector *)

\* AssessmentCandidate (assessment_extractor.py:23-46); cid stands for the
\* identity of the Python object (its position among the candidates made)
AssessmentCandidate(cid, title, weight, due_date, due_rule, source_method, raw_evidence, is_bonus, has_assessment_noun, is_in_evaluation_section, is_in_table) ==
    [cid |-> cid, title |-> title, weight |-> weight, due_date |-> due_date,
     due_rule |-> due_rule, source_method |-> source_method, raw_evidence |-> raw_evidence,
     score |-> 0, is_bonus |-> is_bonus, rejection_reason |-> "",
     has_assessment_noun |-> has_assessment_noun,
     is_in_evaluation_section |-> is_in_evaluation_section,
     is_in_table |-> is_in_table, looks_like_title |-> TRUE]

\* ConstrainedSelector.__init__ defaults
target == 100
tolerance == 10

\* c.weight or 0
WeightOrZero(c) == IF c.weight = None THEN 0 ELSE c.weight[1]

RECURSIVE SumWeights(_)
SumWeights(cs) == IF cs = <<>> THEN 0 ELSE WeightOrZero(Head(cs)) + SumWeights(Tail(cs))

Abs(x) == IF x < 0 THEN -x ELSE x

\* re.sub(r'^in[\s\-]class\s+', '', norm)
StripInClassPrefix(norm) ==
    IF /\ StartsWith(norm, "in")
       /\ Len(norm) >= 3 /\ (IsSpace(Char(norm, 3)) \/ Char(norm, 3) = "-")
       /\ MatchAt(norm, "class", 4)
       /\ SkipSpaces(norm, 9) > 9
    THEN SubSeq(norm, SkipSpaces(norm, 9), Len(norm))
    ELSE norm

\* re.sub(r'\d+', '#', norm)
RECURSIVE DigitsToHash(_)
DigitsToHash(norm) ==
    IF norm = "" THEN ""
    ELSE IF IsDigit(Char(norm, 1))
         THEN "#" \o DigitsToHash(SubSeq(norm, DigitRunEnd(norm, 1) + 1, Len(norm)))
         ELSE Char(norm, 1) \o DigitsToHash(Tail(norm))

\* ' '.join(norm.split())
RECURSIVE CollapseSpaces(_)
CollapseSpaces(text) ==
    LET t == Strip(text)
        RECURSIVE WordEnd(_)
        WordEnd(i) == IF i <= Len(t) /\ ~IsSpace(Char(t, i)) THEN WordEnd(i + 1) ELSE i - 1
    IN  IF t = "" THEN ""
        ELSE IF WordEnd(1) = Len(t) THEN t
        ELSE SubSeq(t, 1, WordEnd(1)) \o " " \o CollapseSpaces(SubSeq(t, WordEnd(1) + 1, Len(t)))

\* ConstrainedSelector._normalize_title
_normalize_title(title) ==
    CollapseSpaces(DigitsToHash(StripInClassPrefix(Strip(Lower(title)))))

\* a sort key that forgets the weight
KeyGE_ScoreOnly(a, b) == a.score >= b.score

\* the sort key (c.score, c.weight or 0): a's key >= b's key
KeyGE(a, b) ==
    \/ a.score > b.score
    \/ a.score = b.score /\ WeightOrZero(a) >= WeightOrZero(b)

\* sorted(core, key=..., reverse=True): stable, so a candidate goes behind
\* every candidate before it whose key is not smaller
RECURSIVE SortedDescending(_)
SortedDescending(cs) ==
    IF cs = <<>> THEN <<>>
    ELSE LET front == SortedDescending(SubSeq(cs, 1, Len(cs) - 1))
             c == cs[Len(cs)]
             k == Cardinality({ i \in 1..Len(front) : KeyGE(front[i], c) })
         IN  SubSeq(front, 1, k) \o <<c>> \o SubSeq(front, k + 1, Len(front))

\* a deduplication loop that skips one candidate only: the first whose
\* normalized title was seen
Deduplicate_OnePerPass(sorted_core) ==
    LET norm(i) == _normalize_title(sorted_core[i].title)
        seen == { i \in 1..Len(sorted_core) : \E j \in 1..(i - 1) : norm(j) = norm(i) }
        unskipped(i) == i \notin seen \/ \E j \in seen : j < i
        kept == SelectSeq([i \in 1..Len(sorted_core) |-> i], unskipped)
    IN  [k \in 1..Len(kept) |-> sorted_core[kept[k]]]

\* the deduplication loop: keep a candidate when no candidate before it has
\* the same normalized title
Deduplicate(sorted_core) ==
    LET norm(i) == _normalize_title(sorted_core[i].title)
        unseen(i) == \A j \in 1..(i - 1) : norm(j) # norm(i)
        kept == SelectSeq([i \in 1..Len(sorted_core) |-> i], unseen)
    IN  [k \in 1..Len(kept) |-> sorted_core[kept[k]]]

\* an acceptance test that looks at the candidate's own weight only
Accepts_NoRunningTotal(current_total, c) == WeightOrZero(c) <= target + tolerance

\* an acceptance test without the tolerance
Accepts_UpToTarget(current_total, c) == current_total + WeightOrZero(c) <= target

\* current_total + weight <= self.target + self.tolerance
Accepts(current_total, c) == current_total + WeightOrZero(c) <= target + tolerance

\* the greedy loop over the deduplicated candidates
RECURSIVE GreedySelect(_, _)
GreedySelect(deduplicated, current_total) ==
    IF deduplicated = <<>> THEN <<>>
    ELSE LET c == Head(deduplicated)
         IN  IF Accepts(current_total, c)
             THEN <<c>> \o GreedySelect(Tail(deduplicated), current_total + WeightOrZero(c))
             ELSE GreedySelect(Tail(deduplicated), current_total)

\* a tolerance test that excludes the ends of the band
WithinTolerance_Strict(core_total) == Abs(core_total - target) < tolerance

\* abs(core_total - self.target) <= self.tolerance
WithinTolerance(core_total) == Abs(core_total - target) <= tolerance

CoreOf(cs) == SelectSeq(cs, LAMBDA c : ~c.is_bonus /\ c.rejection_reason = "")
BonusOf(cs) == SelectSeq(cs, LAMBDA c : c.is_bonus /\ c.rejection_reason = "")

\* a select that returns its whole input, then the bonus candidates, when
\* the core sum is within the tolerance
select_AllThenBonus(cs) ==
    IF cs = <<>> THEN <<>>
    ELSE LET core == CoreOf(cs)
             bonus == BonusOf(cs)
             core_total == SumWeights(core)
         IN  IF WithinTolerance(core_total) THEN cs \o bonus
             ELSE IF core_total < target - tolerance THEN core \o bonus
             ELSE LET sorted_core == SortedDescending(core)
                      deduplicated == Deduplicate(sorted_core)
                  IN  GreedySelect(deduplicated, 0) \o bonus

\* ConstrainedSelector.select
select(cs) ==
    IF cs = <<>> THEN <<>>
    ELSE LET core == CoreOf(cs)
             bonus == BonusOf(cs)
             core_total == SumWeights(core)
         IN  IF WithinTolerance(core_total) THEN core \o bonus
             ELSE IF core_total < target - tolerance THEN core \o bonus
             ELSE LET sorted_core == SortedDescending(core)
                      deduplicated == Deduplicate(sorted_core)
                  IN  GreedySelect(deduplicated, 0) \o bonus

-----------------------------------------------------------------------------
(* The selector's caller (AssessmentExtractor.extract, step 4) *)

\* a candidate as the generator, the filter and the scorer leave it
ScoredCandidate(title, weight, source_method, is_bonus, is_in_table, score) ==
    [AssessmentCandidate(0, title, weight, None, "", source_method, title,
                         is_bonus, TRUE, FALSE, is_in_table)
       EXCEPT !.score = score]

\* filtered candidates: table rows (score 0.80, or 0.50 without a weight) and
\* inline matches (0.65); two numbered quizzes and an in-class quiz share a
\* normalized title; one row is a bonus item
CandidatePool ==
    { ScoredCandidate("Quiz 1", Some(10), "pdfplumber", FALSE, TRUE, 8000),
      ScoredCandidate("Quiz 2", Some(60), "pdfplumber", FALSE, TRUE, 8000),
      ScoredCandidate("In-class Quiz 3", Some(30), "pdfplumber", FALSE, TRUE, 8000),
      ScoredCandidate("Final Exam", Some(50), "inline", FALSE, FALSE, 6500),
      ScoredCandidate("Midterm", Some(40), "pdfplumber", FALSE, TRUE, 8000),
      ScoredCandidate("Term Project", Some(100), "inline", FALSE, FALSE, 6500),
      ScoredCandidate("Essay", None, "pdfplumber", FALSE, TRUE, 5000),
      ScoredCandidate("Bonus Quiz", Some(20), "pdfplumber", TRUE, TRUE, 8000) }

CandidateLists ==
    UNION { { [i \in 1..n |-> [f[i] EXCEPT !.cid = i]] : f \in [1..n -> CandidatePool] } :
            n \in 0..MaxCandidates }

InitSelector ==
    /\ pc = "ready"
    /\ candidates \in CandidateLists
    /\ selected = <<>>
    /\ NoResolver
    /\ NoFilter
    /\ NoExtractor
    /\ NoLater

\* self.selected_candidates = self.selector.select(filtered)
Select ==
    /\ pc = "ready"
    /\ selected' = select(candidates)
    /\ pc' = "selected"
    /\ UNCHANGED <<candidates, resolverVars, filterVars, extractorVars, laterVars>>

NextSelector == Select

SpecSelector == InitSelector /\ [][NextSelector]_vars

-----------------------------------------------------------------------------
(* Claims about the resolver *)

\* a task in the state Unresolved: it has a rule and no timestamp
Unresolved(task) == task.due_rule # "" /\ task.due_datetime = None

\* the range _generate_occurrences walks for a section
OccurrenceRange(section, trm) ==
    IF section.date_range # None THEN section.date_range[1] ELSE trm

\* the meetings of a section: one per date of its range on a meeting weekday
MeetingDates(section, trm) ==
    { d \in OccurrenceRange(section, trm)[1]..OccurrenceRange(section, trm)[2] :
        weekday(d) \in section.days_of_week }

IsAscending(seq) == \A i \in 1..(Len(seq) - 1) : seq[i] < seq[i + 1]

OccurrencesExact(section, trm) ==
    LET occ == _generate_occurrences(section, trm)
    IN  /\ IsAscending(occ)
        /\ { occ[i] : i \in 1..Len(occ) }
             = { combine(d, section.start_time) : d \in MeetingDates(section, trm) }

\* the section a rule's anchor selects, by the rule of section 4.6 step 1
AnchorMatches(anchor, secs) ==
    \/ \E j \in 1..Len(secs) :
          \/ Contains(Lower(secs[j].section_type), Lower(anchor))
          \/ Contains(Lower(anchor), Lower(secs[j].section_type))
    \/ Lower(anchor) = "tutorial" /\ \E j \in 1..Len(secs) : Lower(secs[j].section_type) = "lab"

\* the section the anchor selects: the first whose type matches, else (for
\* "tutorial") the first lab section
SetMin(S) == CHOOSE m \in S : \A x \in S : m <= x
AnchorSectionOf(anchor, secs) ==
    LET direct == { j \in 1..Len(secs) :
                      \/ Contains(Lower(secs[j].section_type), Lower(anchor))
                      \/ Contains(Lower(anchor), Lower(secs[j].section_type)) }
        labs == { j \in 1..Len(secs) : Lower(secs[j].section_type) = "lab" }
    IN  IF direct # {} THEN secs[SetMin(direct)] ELSE secs[SetMin(labs)]

\* the rule text holds "N hours", "N days" or "N weeks"
HasNumericOffset(rule_text) ==
    \E i \in 1..Len(rule_text), unit \in {"hour", "day", "week"} :
        /\ IsDigit(Char(rule_text, i))
        /\ \E j \in (i + 2)..Len(rule_text) :
              /\ \A k \in (i + 1)..(j - 1) : IsSpace(Char(rule_text, k))
              /\ MatchAt(Lower(rule_text), unit, j)

\* C1: after resolve_rules, an Unresolved task whose anchor section is found,
\* whose offset parses and whose section has k >= 1 occurrences has given k
\* tasks of the returned list, titled "Name 1" .. "Name k", the n-th due at
\* the n-th occurrence plus the offset.
C1_OneTaskPerOccurrence ==
    (pc = "resolved" /\ passes = 1) =>
        \A i \in 1..Len(entered) :
            LET task == entered[i]
                section == _find_anchor_section(task.rule_anchor, sections)
                offset == _parse_rule_offset(task.due_rule)
                occ == _generate_occurrences(section[1], term)
            IN  (Unresolved(task) /\ task.rule_anchor # "" /\ section # None
                 /\ offset # None /\ Len(occ) >= 1) =>
                    \A n \in 1..Len(occ) :
                        \E p \in 1..Len(resolved) :
                            /\ resolved[p].title = task.title \o " " \o ToString(n)
                            /\ resolved[p].due_datetime = Some(occ[n] + offset[1])

\* C2: _generate_occurrences returns, in ascending order, exactly one
\* occurrence (date + start time) for every date of the range on one of the
\* section's meeting weekdays, and nothing else.
C2_OccurrencesExact ==
    \A j \in 1..Len(sections) : OccurrencesExact(sections[j], term)

\* C7: every task that entered resolve_rules with a rule and no timestamp
\* leaves it with needs_review = true, resolved or not.
C7_NeedsReviewAlways ==
    pc = "resolved" =>
        /\ Len(resolved) = Len(entered)
        /\ \A i \in 1..Len(entered) :
              Unresolved(entered[i]) => resolved[i].needs_review = TRUE

\* a pass that resolved one task and failed to resolve another
C7_Witness ==
    /\ pc = "resolved"
    /\ \E i, j \in 1..Len(entered) :
          /\ Unresolved(entered[i]) /\ resolved[i].due_datetime # None
          /\ resolved[i].needs_review
          /\ Unresolved(entered[j]) /\ resolved[j].due_datetime = None
          /\ resolved[j].needs_review

\* why an Unresolved task cannot be resolved: no section for its anchor, no
\* numeric offset in its rule, or no occurrence of the section in range
CannotResolve(task, secs, trm) ==
    \/ task.rule_anchor = ""
    \/ ~AnchorMatches(task.rule_anchor, secs)
    \/ ~HasNumericOffset(task.due_rule)
    \/ MeetingDates(AnchorSectionOf(task.rule_anchor, secs), trm) = {}

\* C8: resolve_rule leaves an Unresolved task in NeedsReview (flag set, no
\* timestamp, nothing else changed) exactly when no section matches its
\* anchor, no numeric offset parses or the section has no occurrence in
\* range; otherwise it leaves it Resolved, with a timestamp.
C8_NeedsReviewOrResolved ==
    pc = "resolved" =>
        \A i \in 1..Len(entered) :
            Unresolved(entered[i]) =>
                IF CannotResolve(entered[i], sections, term)
                THEN resolved[i] = [entered[i] EXCEPT !.needs_review = TRUE]
                ELSE resolved[i].due_datetime # None

\* a pass with each of the three failures and a success: here a task whose
\* tutorial anchor fell back on a lab section and was resolved, beside one
\* whose section never meets in range
C8_Witness ==
    /\ pc = "resolved"
    /\ \E i, j \in 1..Len(entered) :
          /\ Unresolved(entered[i])
          /\ Lower(entered[i].rule_anchor) = "tutorial"
          /\ ~CannotResolve(entered[i], sections, term)
          /\ resolved[i].due_datetime # None
          /\ Unresolved(entered[j])
          /\ AnchorMatches(entered[j].rule_anchor, sections)
          /\ HasNumericOffset(entered[j].due_rule)
          /\ CannotResolve(entered[j], sections, term)
          /\ resolved[j].due_datetime = None /\ resolved[j].needs_review


-----------------------------------------------------------------------------
(* Claims about the selector *)

\* S: the sum of the core (non-bonus) weights of the input
CoreTotal == SumWeights(CoreOf(candidates))

PositionsOf(seq) == 1..Len(seq)

\* C4 as stated: with S <= 110 the output is the input, in the same order.
C4_IdentityInOrder ==
    (pc = "selected" /\ CoreTotal <= target + tolerance) => selected = candidates

\* C4 as amended: with S <= 110 the output holds every candidate of the input
\* exactly once, unchanged, the core candidates in input order followed by
\* the bonus candidates in input order.
C4_SameCandidatesCoreFirst ==
    (pc = "selected" /\ CoreTotal <= target + tolerance) =>
        /\ Len(selected) = Len(candidates)
        /\ \A i \in PositionsOf(candidates) :
              \E p \in PositionsOf(selected) : selected[p] = candidates[i]
        /\ \A p, q \in PositionsOf(selected) :
              p < q =>
                 /\ ~(selected[p].is_bonus /\ ~selected[q].is_bonus)
                 /\ selected[p].is_bonus = selected[q].is_bonus
                      => selected[p].cid < selected[q].cid

\* S = 90 exactly, with a bonus candidate ahead of a core one in the input
C4_Witness ==
    /\ pc = "selected"
    /\ CoreTotal = target - tolerance
    /\ Len(candidates) >= 3
    /\ candidates[1].is_bonus
    /\ selected # candidates
    /\ Len(selected) = Len(candidates)

C6_DedupThenSortThenGreedy ==
    (pc = "selected" /\ CoreTotal > target + tolerance) =>
        CoreOf(selected)
          = GreedySelect(SortedDescending(Deduplicate(CoreOf(candidates))), 0)

\* a ranks before b in the descending (score, weight) order, input order
\* deciding between equal keys
RanksBefore(a, b) ==
    \/ a.score > b.score
    \/ a.score = b.score /\ WeightOrZero(a) > WeightOrZero(b)
    \/ a.score = b.score /\ WeightOrZero(a) = WeightOrZero(b) /\ a.cid < b.cid

\* c is the first-ranked of the core candidates with its normalized title
IsRepresentative(c, core) ==
    \A i \in PositionsOf(core) :
        (core[i] # c /\ _normalize_title(core[i].title) = _normalize_title(c.title))
            => RanksBefore(c, core[i])

\* C6 as amended: with S > 110 the core part of the output is what sorting
\* the core candidates by (score, weight) descending, keeping the first of
\* each normalized title in that order, and accepting in that order every
\* candidate that keeps the running sum <= 110 gives.
C6_SortThenDedupThenGreedy ==
    (pc = "selected" /\ CoreTotal > target + tolerance) =>
        LET out == CoreOf(selected)
            core == CoreOf(candidates)
            accepted_before(c) == SelectSeq(out, LAMBDA o : RanksBefore(o, c))
        IN  /\ \A p, q \in PositionsOf(out) : p < q => RanksBefore(out[p], out[q])
            /\ \A p \in PositionsOf(out) :
                  /\ \E i \in PositionsOf(core) : core[i] = out[p]
                  /\ IsRepresentative(out[p], core)
            /\ \A i \in PositionsOf(core) :
                  IsRepresentative(core[i], core) =>
                     ((\E p \in PositionsOf(out) : out[p] = core[i])
                        <=> SumWeights(accepted_before(core[i])) + WeightOrZero(core[i])
                              <= target + tolerance)

\* an over-count where the later of two candidates with one normalized title
\* ranks first and is the one kept, and where a candidate was passed over
\* and a lower-ranked one accepted
C6_Witness ==
    /\ pc = "selected"
    /\ CoreTotal > target + tolerance
    /\ LET out == CoreOf(selected)
           core == CoreOf(candidates)
       IN  /\ \E i, j \in PositionsOf(core) :
                 /\ i < j
                 /\ _normalize_title(core[i].title) = _normalize_title(core[j].title)
                 /\ RanksBefore(core[j], core[i])
                 /\ \E p \in PositionsOf(out) : out[p] = core[j]
           /\ \E i \in PositionsOf(core), p \in PositionsOf(out) :
                 /\ IsRepresentative(core[i], core)
                 /\ \A q \in PositionsOf(out) : out[q] # core[i]
                 /\ RanksBefore(core[i], out[p])

\* C11: title deduplication is idempotent: applied to its own output it
\* returns that output unchanged, for the candidates in the order select
\* hands them over (sorted core) and in the order they came in; so the
\* selection of an over-count is what a second deduplication would give too.
C11_DeduplicateIdempotent ==
    LET sorted_core == SortedDescending(CoreOf(candidates))
    IN  /\ Deduplicate(Deduplicate(sorted_core)) = Deduplicate(sorted_core)
        /\ Deduplicate(Deduplicate(candidates)) = Deduplicate(candidates)
        /\ (pc = "selected" /\ CoreTotal > target + tolerance) =>
              selected = GreedySelect(Deduplicate(Deduplicate(sorted_core)), 0)
                         \o BonusOf(candidates)

\* an over-count selected from where three candidates share a normalized
\* title and deduplication left more than one candidate
C11_Witness ==
    /\ pc = "selected"
    /\ CoreTotal > target + tolerance
    /\ LET sorted_core == SortedDescending(CoreOf(candidates))
       IN  /\ Len(Deduplicate(sorted_core)) >= 2
           /\ Len(Deduplicate(sorted_core)) + 2 = Len(sorted_core)


-----------------------------------------------------------------------------
(* PolicyWindowFilter (assessment_extractor.py:49-164) *)

\* s[i], or "" outside the string
CharAt(s, i) == IF 1 <= i /\ i <= Len(s) THEN Char(s, i) ELSE ""

\* first index >= i of s that holds whitespace (Len(s)+1 when there is none)
RECURSIVE WordEnd(_, _)
WordEnd(s, i) ==
    IF i <= Len(s) /\ ~IsSpace(Char(s, i)) THEN WordEnd(s, i + 1) ELSE i

\* str.split(): the maximal runs of non-whitespace characters
RECURSIVE Split(_)
Split(s) ==
    LET i == SkipSpaces(s, 1)
    IN  IF i > Len(s) THEN <<>>
        ELSE LET e == WordEnd(s, i)
             IN  <<SubSeq(s, i, e - 1)>> \o Split(SubSeq(s, e, Len(s)))

\* " ".join(words)
RECURSIVE Join(_)
Join(words) ==
    IF words = <<>> THEN ""
    ELSE IF Len(words) = 1 THEN words[1]
    ELSE words[1] \o " " \o Join(Tail(words))

\* a match of w1\s+w2\s+...\s+wn that starts at index i of s: the index after
\* the match, or 0 when there is none
RECURSIVE PhraseEnd(_, _, _)
PhraseEnd(s, words, i) ==
    IF ~MatchAt(s, Head(words), i) THEN 0
    ELSE LET e == i + Len(Head(words))
         IN  IF Len(words) = 1 THEN e
             ELSE LET k == SkipSpaces(s, e)
                  IN  IF k = e THEN 0 ELSE PhraseEnd(s, Tail(words), k)

\* re.search of w1\s+w2\s+...\s+wn
SearchPhrase(s, words) == \E i \in 1..Len(s) : PhraseEnd(s, words, i) # 0

\* \b at index i of s: between s[i-1] and s[i], one a word character, the
\* other not
WordBoundary(s, i) == IsWordChar(CharAt(s, i - 1)) # IsWordChar(CharAt(s, i))

POLICY_TERMS ==
    { "passing", "pass", "minimum", "eligible", "eligibility", "must",
      "achieve", "obtain", "requirement", "required", "weighted",
      "average", "threshold", "fail", "reweighted", "hurdle",
      "grade", "grading", "at least", "least", "need", "needs" }

\* each pattern as the set of word sequences it matches, \s+ between words
POLICY_PHRASES ==
    { <<"to", "be", "eligible">>, <<"to", "eligible">>,
      <<"to", "obtain">>,
      <<"to", "pass">>,
      <<"must", "achieve">>,
      <<"must", "obtain">>,
      <<"must", "have">>,
      <<"passing", "grade">>,
      <<"minimum", "grade">>, <<"minimum", "mark">>, <<"minimum", "score">>,
      <<"weighted", "average">>,
      <<"at", "least">>,
      <<"will", "be", "reweighted">>,
      <<"result", "in">>,
      <<"a", "grade", "of">>, <<"a", "mark", "of">> }

\* PolicyWindowFilter.__init__ default
window_size == 12

\* the loop that looks for the word holding the percentage: char_pos counts
\* one separator per word; word_idx stays 0 when the loop does not break
RECURSIVE FindWordIdx(_, _, _, _)
FindWordIdx(words, percent_position, i, char_pos) ==
    IF i >= Len(words) THEN 0
    ELSE IF char_pos + Len(words[i + 1]) >= percent_position THEN i
    ELSE FindWordIdx(words, percent_position, i + 1, char_pos + Len(words[i + 1]) + 1)

\* words[start_idx:end_idx] searched for a policy term or phrase
WindowIsPolicy(words, word_idx) ==
    LET start_idx == Max2(0, word_idx - window_size)
        end_idx == Min2(Len(words), word_idx + window_size + 1)
        window == SubSeq(words, start_idx + 1, end_idx)
        window_text == Join(window)
    IN  \/ \E k \in 1..Len(window) : window[k] \in POLICY_TERMS
        \/ \E phrase \in POLICY_PHRASES : SearchPhrase(window_text, phrase)

\* percent_position is the 0-based character position of the percentage
is_policy_context(text, percent_position) ==
    LET words == Split(Lower(text))
    IN  WindowIsPolicy(words, FindWordIdx(words, percent_position, 0, 0))

\* a match of \d+(?:\.\d+)?% that starts at index i
PercentMatchAt(s, i) ==
    /\ IsDigit(CharAt(s, i))
    /\ LET e == DigitRunEnd(s, i) + 1
       IN  \/ CharAt(s, e) = "%"
           \/ /\ CharAt(s, e) = "."
              /\ IsDigit(CharAt(s, e + 1))
              /\ CharAt(s, DigitRunEnd(s, e + 1) + 1) = "%"

\* re.search(r'\d+(?:\.\d+)?%', evidence): Some(match.start()), 0-based
PercentSearch(s) ==
    LET starts == { i \in 1..Len(s) : PercentMatchAt(s, i) }
    IN  IF starts = {} THEN None
        ELSE Some((CHOOSE i \in starts : \A j \in starts : i <= j) - 1)

policy_starters ==
    << "to be", "to obtain", "to pass", "must", "should", "will be",
       "students", "you must", "a minimum", "the minimum", "minimum",
       "at least", "achieve", "eligible" >>

\* the first starter, in list order, that the title starts with
FirstStarter(title_lower) ==
    LET hits == { k \in 1..Len(policy_starters) : StartsWith(title_lower, policy_starters[k]) }
    IN  IF hits = {} THEN None
        ELSE Some(policy_starters[CHOOSE k \in hits : \A j \in hits : k <= j])

\* \b(?:is|are|...|can)\b.*\b(?:be|have|get|receive)\b ; . matches no newline
VerbThenAuxiliary(s) ==
    \E i \in 1..Len(s) :
        \E a \in {"is", "are", "was", "were", "will", "shall", "should", "must", "may", "can"} :
            /\ MatchAt(s, a, i) /\ WordBoundary(s, i) /\ WordBoundary(s, i + Len(a))
            /\ \E j \in (i + Len(a))..Len(s) :
                  \E b \in {"be", "have", "get", "receive"} :
                      /\ MatchAt(s, b, j) /\ WordBoundary(s, j) /\ WordBoundary(s, j + Len(b))
                      /\ \A k \in (i + Len(a))..(j - 1) : Char(s, k) # "\n"

\* \bto\s+(?:be|have|get|receive|pass|obtain|achieve)\b
ToInfinitive(s) ==
    \E i \in 1..Len(s) :
        \E v \in {"be", "have", "get", "receive", "pass", "obtain", "achieve"} :
            LET e == PhraseEnd(s, <<"to", v>>, i)
            IN  WordBoundary(s, i) /\ e # 0 /\ WordBoundary(s, e)

\* verb_patterns
IsSentenceLike(title_lower) == VerbThenAuxiliary(title_lower) \/ ToInfinitive(title_lower)

Reject(c, reason) == [rejected |-> TRUE, candidate |-> [c EXCEPT !.rejection_reason = reason]]

\* returns the bool and the candidate with the reason it recorded
filter_candidate(c) ==
    LET evidence == Lower(c.raw_evidence)
        percent_match == PercentSearch(evidence)
        title_lower == Lower(c.title)
        starter == FirstStarter(title_lower)
    IN  IF percent_match # None /\ is_policy_context(evidence, percent_match[1])
        THEN Reject(c, "Policy context (window filter)")
        ELSE IF starter # None
        THEN Reject(c, "Title starts with policy word: " \o starter[1])
        ELSE IF IsSentenceLike(title_lower)
        THEN Reject(c, "Title is sentence-like")
        ELSE [rejected |-> FALSE, candidate |-> c]

-----------------------------------------------------------------------------
(* The filter's caller (AssessmentExtractor.extract, step 2, one candidate) *)

\* n words "w", each followed (or preceded) by one space
RECURSIVE FillerWords(_, _)
FillerWords(n, word) == IF n = 0 THEN "" ELSE word \o FillerWords(n - 1, word)

\* none, and the counts that put a word just inside or just outside the window
FillerCounts == {0} \cup ((MaxFiller - 3)..MaxFiller)

\* a line of text around "Quiz <gap> 15%": words before and after it, single
\* spaced, with or without a policy word at the far end
EvidenceLines ==
    { pre \o FillerWords(before, "w ") \o "Quiz" \o gap \o "15%"
          \o FillerWords(after, " w") \o post :
        pre \in {"", "must ", "pass "},
        before \in FillerCounts,
        gap \in {" ", "     ", "\n\n\n"},
        after \in FillerCounts,
        post \in {"", " pass", " grade.", " at least"} }

EvidenceTexts ==
    { "Assignment 1: 15%",
      "to be eligible for a passing grade students must average 50%",
      "Lab Reports | 20% | Jan 15",
      "must pass Quiz 15 %",
      "Quiz 15",
      "A student must attend every lab session in person and hand in the pre-lab sheet.\n\n\n\nLab Reports                    20%" }

FilterTitles ==
    { "Assignment 1", "Lab Reports", "Students must average", "To be eligible",
      "Minimum grade", "Shoulder Exam", "Labs will be marked", "Plan to pass",
      "Tobe Maybe Quiz", "Reports may\nbe late", "Essay to  obtain" }

FilterInputs ==
    { AssessmentCandidate(0, "Quiz", Some(15), None, "", "inline", e, FALSE, TRUE, FALSE, FALSE) :
        e \in EvidenceLines }
    \cup
    { AssessmentCandidate(0, "Lab Reports", Some(20), None, "", "inline", e, FALSE, FALSE, FALSE, FALSE) :
        e \in EvidenceTexts }
    \cup
    { AssessmentCandidate(0, t, Some(15), None, "", "inline", t \o ": 15%", FALSE, FALSE, FALSE, FALSE) :
        t \in FilterTitles }

InitFilter ==
    /\ pc = "ready"
    /\ candidate \in FilterInputs
    /\ rejected = None
    /\ NoResolver
    /\ NoSelector
    /\ NoExtractor
    /\ NoLater

\* if self.filter.filter_candidate(candidate): ... else: ...
FilterCandidate ==
    /\ pc = "ready"
    /\ LET r == filter_candidate(candidate)
       IN  candidate' = r.candidate /\ rejected' = Some(r.rejected)
    /\ pc' = "filtered"
    /\ UNCHANGED <<resolverVars, selectorVars, extractorVars, laterVars>>

NextFilter == FilterCandidate

SpecFilter == InitFilter /\ [][NextFilter]_vars

-----------------------------------------------------------------------------
(* Claims about the filter *)

\* 0-based index, among the whitespace-separated tokens of text, of the token
\* that holds the character at 0-based position pos
TokenIndexOf(text, pos) ==
    Cardinality({ j \in 1..(pos + 1) :
                    ~IsSpace(Char(text, j)) /\ (j = 1 \/ IsSpace(Char(text, j - 1))) }) - 1

\* the window of 12 tokens on each side of the first percentage of the
\* evidence holds a policy token or matches a policy phrase
PolicyInTokenWindow(c) ==
    LET evidence == Lower(c.raw_evidence)
        percent_match == PercentSearch(evidence)
    IN  /\ percent_match # None
        /\ WindowIsPolicy(Split(evidence), TokenIndexOf(evidence, percent_match[1]))

PolicyTitle(c) ==
    FirstStarter(Lower(c.title)) # None \/ IsSentenceLike(Lower(c.title))

\* C10: filter_candidate rejects a candidate exactly when the window of 12
\* tokens on each side of the first percentage of its raw evidence holds a
\* policy token or phrase, or its title starts with a policy starter or
\* matches a verb-phrase pattern; a retained candidate has no rejection reason.
C10_RejectsIffPolicy ==
    pc = "filtered" =>
        /\ rejected = Some(PolicyInTokenWindow(candidate) \/ PolicyTitle(candidate))
        /\ rejected = Some(FALSE) => candidate.rejection_reason = ""

-----------------------------------------------------------------------------
(* AssessmentCandidateGenerator (assessment_extractor.py:166-538) *)

\* DetectedTable (document_structure.py:101-118); cells are strings
DetectedTable(headers, rows, table_type) ==
    [headers |-> headers, rows |-> rows, table_type |-> table_type]

\* any(kw in text for kw in kws)
ContainsAny(text, kws) == \E kw \in kws : Contains(text, kw)
StartsWithAny(text, prefixes) == \E p \in prefixes : StartsWith(text, p)

ASSESSMENT_NOUNS ==
    { "exam", "examination", "midterm", "final", "test", "quiz",
      "assignment", "homework", "hw", "project", "lab", "laboratory",
      "participation", "attendance", "presentation", "essay", "report",
      "paper", "portfolio", "tutorial", "exercise", "practicum",
      "rotation", "clinical", "practical", "total" }

BONUS_INDICATORS == { "bonus", "extra credit", "optional", "up to", "additional" }

_has_assessment_noun(title) == ContainsAny(Lower(title), ASSESSMENT_NOUNS)

_is_assessment_table(table) ==
    /\ table.headers # <<>>
    /\ ContainsAny(Lower(Join(table.headers)),
                   { "assessment", "evaluation", "grading", "weight", "%",
                     "grade", "component", "worth", "weighting" })

\* the loop of _map_columns from header idx (0-based) on; a column not found
\* is None
RECURSIVE MapColumnsFrom(_, _, _)
MapColumnsFrom(headers, idx, col_map) ==
    IF idx >= Len(headers) THEN col_map
    ELSE LET header_lower == Lower(headers[idx + 1])
             next ==
                IF ContainsAny(header_lower, {"assessment", "component", "item", "task", "name", "activity"})
                THEN [col_map EXCEPT !.name = Some(idx)]
                ELSE IF ContainsAny(header_lower, {"weight", "%", "worth", "value", "percentage"})
                THEN [col_map EXCEPT !.weight = Some(idx)]
                ELSE IF Contains(header_lower, "due")
                THEN [col_map EXCEPT !.date = Some(idx)]
                ELSE IF Contains(header_lower, "date") /\ col_map.date = None
                THEN [col_map EXCEPT !.date = Some(idx)]
                ELSE col_map
         IN  MapColumnsFrom(headers, idx + 1, next)

_map_columns(table) ==
    LET col_map == MapColumnsFrom(table.headers, 0, [name |-> None, weight |-> None, date |-> None])
    IN  IF col_map.name = None /\ table.headers # <<>>
        THEN [col_map EXCEPT !.name = Some(0)]
        ELSE col_map

\* first index >= i of s that holds none of the characters of chars
RECURSIVE SkipChars(_, _, _)
SkipChars(s, i, chars) ==
    IF i <= Len(s) /\ Char(s, i) \in chars THEN SkipChars(s, i + 1, chars) ELSE i

_clean_cell(cell) ==
    IF cell = "" THEN ""
    ELSE LET text == Replace(Replace(Strip(cell), "\n", " "), "\r", " ")
             \* re.sub(r'^[\d\.\)\:\-]+\s*', '', text)
             k == SkipChars(text, 1, DigitSet \cup {".", ")", ":", "-"})
             unbulleted == IF k = 1 THEN text ELSE SubSeq(text, SkipSpaces(text, k), Len(text))
         IN  Join(Split(unbulleted))

_is_summary_row(title) ==
    LET title_lower == Strip(Lower(title))
    IN  \/ title_lower \in {"total", "overall", "sum"}
        \/ \E first \in {"course", "grand"} :
              PhraseEnd(title_lower, <<first, "total">>, 1) = Len(title_lower) + 1

Months ==
    { "january", "february", "march", "april", "may", "june", "july", "august",
      "september", "october", "november", "december" }

\* GARBAGE_PATTERNS, each searched in the lower-cased title
MatchesGarbagePattern(t) ==
    \/ IsLower(CharAt(t, 1)) /\ CharAt(t, 2) = "." /\ IsSpace(CharAt(t, 3))
    \/ LET e == DigitRunEnd(t, 1)
       IN  e >= 1 /\ CharAt(t, e + 1) = "." /\ IsLower(CharAt(t, SkipSpaces(t, e + 2)))
    \/ StartsWithAny(t, {"understand", "design", "apply", "analyze", "demonstrate", "develop", "explain"})
    \/ \E w \in {"course", "academic", "student", "you", "we", "the", "a", "an"} :
          StartsWith(t, w) /\ IsSpace(CharAt(t, Len(w) + 1))
    \/ StartsWithAny(t, {"not", "need", "must", "should", "will", "may", "can"})
    \/ ContainsAny(t, {"submitted", "request", "consideration", "accommodation"})
    \/ StartsWithAny(t, {"office", "room", "email", "phone", "www.", "http"})
    \/ \E m \in Months : StartsWith(t, m) /\ IsDigit(CharAt(t, SkipSpaces(t, Len(m) + 1)))
    \/ StartsWithAny(t, {"mon", "tue", "wed", "thu", "fri", "sat", "sun"})
    \/ \E i \in 1..Len(t) : MatchAt(t, "reading", i) /\ MatchAt(t, "week", SkipSpaces(t, i + 7))
    \/ StartsWith(t, "classes")
    \/ StartsWith(t, "exam") /\ MatchAt(t, "period", SkipSpaces(t, 5))
    \/ LET e == DigitRunEnd(t, 1) IN e >= 1 /\ CharAt(t, e + 1) = "%" /\ Len(t) = e + 1

\* the number of characters of s that satisfy Test
CountChars(s, Test(_)) == Cardinality({ i \in 1..Len(s) : Test(Char(s, i)) })

_is_garbage_title(title) ==
    \/ MatchesGarbagePattern(Strip(Lower(title)))
    \/ CountChars(title, IsWordChar) < 3
    \/ title = Lower(title) /\ ~_has_assessment_noun(title)
    \/ LET IsSpecial(c) == ~(IsAlpha(c) \/ IsDigit(c) \/ IsSpace(c) \/ c \in {"-", "(", ")", ":"})
       \* special_ratio > 0.3
       IN  10 * CountChars(title, IsSpecial) > 3 * Max2(Len(title), 1)

\* float(...) of a match of \d+(?:\.\d+)? whose fraction, if any, is zero:
\* its integer part
FloatOf(number) ==
    ToInt(SubSeq(number, 1, DigitRunEnd(number, 1)))

\* re.search(r'(\d+(?:\.\d+)?)\s*%?', cell).group(1): the first run of digits
\* with its fraction, or None
FirstNumber(s) ==
    LET starts == { i \in 1..Len(s) : IsDigit(Char(s, i)) }
    IN  IF starts = {} THEN None
        ELSE LET i == CHOOSE k \in starts : \A j \in starts : k <= j
                 e == DigitRunEnd(s, i)
                 f == IF CharAt(s, e + 1) = "." /\ IsDigit(CharAt(s, e + 2))
                      THEN DigitRunEnd(s, e + 2) ELSE e
             IN  Some(SubSeq(s, i, f))

_extract_weight_Unchecked(cell) ==
    IF cell = "" \/ FirstNumber(cell) = None THEN None
    ELSE Some(FloatOf(FirstNumber(cell)[1]))

_extract_weight(cell) ==
    IF cell = "" \/ FirstNumber(cell) = None THEN None
    ELSE LET value == FloatOf(FirstNumber(cell)[1])
         IN  IF 0 < value /\ value <= 100 THEN Some(value) ELSE None

\* dateparser.parse(cell_str) for the date cells of the modelled documents:
\* the hour of the parsed datetime, None for what is no date
dateparser_parse(cell_str) ==
    IF cell_str = "oct 15" THEN Some(combine(283, 0))
    ELSE IF cell_str = "dec 10" THEN Some(combine(339, 0))
    ELSE None

\* the date cells of the modelled documents on which dateparser.parse raises
\* instead of returning
dateparser_raises(cell_str) == cell_str = "99999999999"

\* returns <<due_date, due_rule>>; "except Exception: return None, None"
_extract_date(cell) ==
    IF cell = "" THEN <<None, "">>
    ELSE LET cell_str == Lower(Strip(cell))
         IN  IF ContainsAny(cell_str, {"after", "before", "following", "hrs", "hours", "days", "week"})
             THEN <<None, cell_str>>
             ELSE IF dateparser_raises(cell_str) THEN <<None, "">>
             ELSE <<dateparser_parse(cell_str), "">>

\* " | ".join(str(c) for c in row)
RECURSIVE Join_Bar(_)
Join_Bar(row) ==
    IF row = <<>> THEN ""
    ELSE IF Len(row) = 1 THEN row[1]
    ELSE row[1] \o " | " \o Join_Bar(Tail(row))

\* a candidate for table row `row` (the header row is not among them)
RowCandidate(table, col_map, row) ==
    LET name == col_map.name[1]
        title == _clean_cell(row[name + 1])
        weight == IF col_map.weight # None /\ Len(row) > col_map.weight[1]
                  THEN _extract_weight(row[col_map.weight[1] + 1]) ELSE None
        date == IF col_map.date # None /\ Len(row) > col_map.date[1]
                THEN _extract_date(row[col_map.date[1] + 1]) ELSE <<None, "">>
    IN  IF Len(row) <= name THEN <<>>
        ELSE IF title = "" \/ Len(title) < 3 THEN <<>>
        ELSE IF _is_summary_row(title) THEN <<>>
        ELSE IF _is_garbage_title(title) THEN <<>>
        ELSE << AssessmentCandidate(0, title, weight, date[1], date[2], table.table_type,
                                    Join_Bar(row),
                                    ContainsAny(Lower(title), BONUS_INDICATORS),
                                    FALSE, FALSE, TRUE) >>

RECURSIVE RowCandidates(_, _, _)
RowCandidates(table, col_map, rows) ==
    IF rows = <<>> THEN <<>>
    ELSE RowCandidate(table, col_map, Head(rows)) \o RowCandidates(table, col_map, Tail(rows))

\* table.rows[1:] : the first row of the table is skipped as its header
RECURSIVE _from_tables(_)
_from_tables(tables) ==
    IF tables = <<>> THEN <<>>
    ELSE LET table == Head(tables)
             col_map == _map_columns(table)
             found == IF ~_is_assessment_table(table) \/ col_map.name = None THEN <<>>
                      ELSE IF table.rows = <<>> THEN <<>>
                      ELSE RowCandidates(table, col_map, Tail(table.rows))
         IN  found \o _from_tables(Tail(tables))

\* a regular-expression match found in the text: the pattern that matched
\* (1 to 4 inline, 5 raw text, 6 special), the title group, the number group
\* and the whole match (group 0)
Match(pattern, title, number, evidence) ==
    [pattern |-> pattern, title |-> title, number |-> number, evidence |-> evidence]

InlineCandidate(m, title, source_method, has_section, has_noun) ==
    AssessmentCandidate(0, title, Some(FloatOf(m.number)), None, "", source_method,
                        m.evidence, FALSE, has_noun, has_section, FALSE)

\* str.title(): a letter after a letter is lower-cased, any other letter
\* upper-cased
RECURSIVE TitleCase(_, _)
TitleCase(s, after_letter) ==
    IF s = "" THEN ""
    ELSE LET c == Char(s, 1)
         IN  (IF after_letter THEN LowerChar(c) ELSE UpperChar(c)) \o TitleCase(Tail(s), IsAlpha(c))

\* the four loops of _from_inline_patterns over the matches, which come in
\* the order patterns 1, 2, 3, 4
\* what one match adds to the list so_far of the candidates built so far
InlineFound(m, has_section, so_far) ==
    LET title == Strip(m.title)
        weight == Some(FloatOf(m.number))
        titled == TitleCase(title, FALSE)
        positions == 1..Len(so_far)
    IN  IF m.pattern \in {1, 2}
        THEN IF ~_has_assessment_noun(title) THEN <<>>
             ELSE <<InlineCandidate(m, title, "inline", has_section, FALSE)>>
        ELSE IF m.pattern = 3
        THEN IF _is_garbage_title(title) THEN <<>>
             ELSE IF \E k \in positions : Lower(so_far[k].title) = Lower(title)
             THEN <<>>
             ELSE <<InlineCandidate(m, title, "inline_table", has_section, FALSE)>>
        ELSE IF \E k \in positions :
                   /\ so_far[k].weight = weight
                   /\ \/ Contains(Lower(so_far[k].title), Lower(titled))
                      \/ Contains(Lower(titled), Lower(so_far[k].title))
             THEN <<>>
             ELSE <<InlineCandidate(m, titled, "inline_keyword", has_section, TRUE)>>

RECURSIVE InlineFrom(_, _, _, _)
InlineFrom(matches, k, has_section, so_far) ==
    IF k > Len(matches) THEN so_far
    ELSE With(so_far \o InlineFound(matches[k], has_section, so_far),
              LAMBDA longer : InlineFrom(matches, k + 1, has_section, longer))

_from_inline_patterns(matches, has_section) == InlineFrom(matches, 1, has_section, <<>>)

_compute_features(c, has_section) ==
    [c EXCEPT !.has_assessment_noun = _has_assessment_noun(c.title),
              !.is_in_evaluation_section =
                  has_section /\ (c.source_method \in {"table", "reconstructed_table"}
                                  \/ c.is_in_evaluation_section)]

generate_candidates(document) ==
    With(_from_tables(document.tables)
            \o _from_inline_patterns(document.inline, document.has_section),
         LAMBDA made :
            [k \in 1..Len(made) |-> _compute_features(made[k], document.has_section)])

_is_garbage_raw_title(title) ==
    LET t == Strip(Lower(title))
    IN  \/ \E w \in {"the", "a", "an", "to", "for", "of", "in", "on", "at", "by", "with"} :
              StartsWith(t, w) /\ IsSpace(CharAt(t, Len(w) + 1))
        \/ StartsWithAny(t, Months)
        \/ StartsWithAny(t, {"monday", "tuesday", "wednesday", "thursday", "friday", "saturday", "sunday"})
        \/ StartsWithAny(t, {"week", "page", "section", "chapter"})
        \/ StartsWithAny(t, {"past", "will", "can", "may", "must", "should"})
        \/ ContainsAny(t, {"penalty", "deadline", "late", "applied", "consideration"})
        \/ StartsWith(t, "assessment")
        \/ /\ Len(title) < 12
           /\ ~ContainsAny(t, {"exam", "midterm", "quiz", "test", "lab", "assignment",
                               "participation", "research", "project", "final", "report"})

\* the loop of _extract_from_raw_pdf over the matches of its pattern
RECURSIVE _extract_from_raw_pdf(_)
_extract_from_raw_pdf(matches) ==
    IF matches = <<>> THEN <<>>
    ELSE LET m == Head(matches)
             title == Strip(m.title)
             found == IF Len(title) < 3 \/ _is_garbage_raw_title(title) THEN <<>>
                      ELSE <<InlineCandidate(m, title, "raw_pdf", TRUE, FALSE)>>
         IN  found \o _extract_from_raw_pdf(Tail(matches))

\* the loop of _extract_special_patterns over the matches of its pattern
RECURSIVE _extract_special_patterns(_)
_extract_special_patterns(matches) ==
    IF matches = <<>> THEN <<>>
    ELSE LET m == Head(matches)
             c == InlineCandidate(m, Strip(m.title), "special_pattern", TRUE, TRUE)
         IN  <<[c EXCEPT !.raw_evidence = SubSeq(m.evidence, 1, Min2(Len(m.evidence), 100))]>>
             \o _extract_special_patterns(Tail(matches))

\* a raw-text source that matches the text read before a page raised
RawPdfCandidates_Partial(file) == _extract_from_raw_pdf(file.raw)

\* _extract_from_raw_pdf as a whole: opening the file or reading a page may
\* raise, and "except Exception: pass" then leaves the list empty
RawPdfCandidates(file) ==
    IF file.raw_raises THEN <<>> ELSE _extract_from_raw_pdf(file.raw)

\* step 1c of extract: the file is opened and read again; when that raises,
\* "except Exception: pass" leaves all_candidates as it was
SpecialCandidates(file) ==
    IF file.special_raises THEN <<>> ELSE _extract_special_patterns(file.special)

-----------------------------------------------------------------------------
(* AssessmentScorer (assessment_extractor.py:541-578) *)

WEIGHTS ==
    [has_weight |-> 3000, has_assessment_noun |-> 2500, is_in_evaluation_section |-> 2000,
     is_in_table |-> 1500, looks_like_title |-> 1000]

\* the float sum the five "score +=" steps give, for the features in the order
\* weight, noun, section, table, title: the exact sum, one unit below it where
\* the float sum is the float just under it, one unit above where just over
FloatSum(flags) ==
    LET names == <<"has_weight", "has_assessment_noun", "is_in_evaluation_section",
                   "is_in_table", "looks_like_title">>
        part(k) == IF flags[k] THEN WEIGHTS[names[k]] ELSE 0
        exact == part(1) + part(2) + part(3) + part(4) + part(5)
    IN  IF flags \in { <<FALSE, FALSE, TRUE, TRUE, TRUE>>, <<TRUE, FALSE, FALSE, TRUE, FALSE>>,
                       <<TRUE, FALSE, FALSE, TRUE, TRUE>> }
        THEN exact - 1
        ELSE IF flags \in { <<FALSE, FALSE, TRUE, FALSE, TRUE>>, <<TRUE, TRUE, FALSE, TRUE, FALSE>> }
        THEN exact + 1
        ELSE exact

score(c) ==
    [c EXCEPT !.score =
        FloatSum(<< c.weight # None /\ 0 < WeightOrZero(c) /\ WeightOrZero(c) <= 100,
                    c.has_assessment_noun, c.is_in_evaluation_section,
                    c.is_in_table, c.looks_like_title >>)]

-----------------------------------------------------------------------------
(* AssessmentExtractor (assessment_extractor.py:660-880) *)

\* an _infer_type that tests 'exam' before the kinds of work
_infer_type_ExamEarly(task_title) ==
    LET title_lower == Lower(task_title)
        has(word) == Contains(title_lower, word)
    IN  IF has("final") /\ has("exam") THEN "final_exam"
        ELSE IF has("midterm") THEN "midterm"
        ELSE IF has("quiz") \/ has("test") THEN "quiz"
        ELSE IF has("exam") THEN "exam"
        ELSE IF has("assignment") \/ has("homework") THEN "assignment"
        ELSE IF has("lab") THEN "lab"
        ELSE IF has("project") THEN "project"
        ELSE IF has("participation") \/ has("attendance") THEN "participation"
        ELSE IF has("presentation") THEN "presentation"
        ELSE "other"

_infer_type(task_title) ==
    LET title_lower == Lower(task_title)
        has(word) == Contains(title_lower, word)
    IN  IF has("final") /\ has("exam") THEN "final_exam"
        ELSE IF has("midterm") THEN "midterm"
        ELSE IF has("quiz") \/ has("test") THEN "quiz"
        ELSE IF has("assignment") \/ has("homework") THEN "assignment"
        ELSE IF has("lab") THEN "lab"
        ELSE IF has("project") THEN "project"
        ELSE IF has("participation") \/ has("attendance") THEN "participation"
        ELSE IF has("presentation") THEN "presentation"
        ELSE IF has("exam") THEN "exam"
        ELSE "other"

_to_assessment_tasks(cs) ==
    [k \in 1..Len(cs) |->
        AssessmentTask(cs[k].title, _infer_type(cs[k].title), cs[k].weight, cs[k].due_date,
                       cs[k].due_rule, "", cs[k].score, cs[k].raw_evidence, FALSE)]

\* steps 1 to 3 of extract: the candidates of every source, each with the
\* rejection reason the filter gave it or else the score the scorer gave it;
\* run numbers the objects of this call
Processed(document, run) ==
    LET from_pdf == IF document.pdf = None THEN <<>>
                    ELSE RawPdfCandidates(document.pdf[1]) \o SpecialCandidates(document.pdf[1])
    IN  With(generate_candidates(document) \o from_pdf,
             LAMBDA made :
                [k \in 1..Len(made) |->
                    With([made[k] EXCEPT !.cid = 100 * run + k],
                         LAMBDA c : With(filter_candidate(c),
                                         LAMBDA r : IF r.rejected THEN r.candidate
                                                    ELSE score(c)))])

IsRejected(c) == c.rejection_reason # ""
IsKept(c) == c.rejection_reason = ""

\* extract(): what it leaves in the extractor's lists and returns; the
\* rejected list is appended to, the others are assigned
extract(document, run, rejected_before) ==
    With(Processed(document, run),
         LAMBDA processed :
            With(select(SelectSeq(processed, IsKept)),
                 LAMBDA chosen :
                    [all_candidates |-> processed,
                     rejected_candidates |-> rejected_before \o SelectSeq(processed, IsRejected),
                     selected_candidates |-> chosen,
                     tasks |-> _to_assessment_tasks(chosen)]))

-----------------------------------------------------------------------------
(* The extractor's caller: documents and the extract operation *)

NativeHeader == <<"Assessment", "Weight", "Due Date">>

\* data rows of a grading table: dated, with a rule, undated; a summary row,
\* a weight out of range, a date cell with policy wording, a bonus item, a
\* row without a name
RowPool ==
    { <<"Midterm", "30%", "Oct 15">>,
      <<"Final Exam", "40%", "Dec 10">>,
      <<"Participation", "10%", "-">>,
      <<"Quiz 1", "60%", "24 hours after lab">>,
      <<"Quiz 2", "50%", "">>,
      <<"Total", "100%", "">>,
      <<"Essay", "105%", "">>,
      <<"Lab Reports", "20%", "must pass by oct 15">>,
      <<"Bonus Quiz", "5%", "">>,
      <<"", "10%", "">> }

RowLists == UNION { [1..n -> RowPool] : n \in 0..MaxRows }

\* pdfplumber tables: the header row is rows[0] too
NativeTable(rows) == DetectedTable(NativeHeader, <<NativeHeader>> \o rows, "pdfplumber")

\* texts of a document, each with the matches the patterns of
\* _from_inline_patterns (1 to 4), _extract_from_raw_pdf (5) and
\* _extract_special_patterns (6) find in it
TextPool ==
    { \* "Final Exam: 40%\nMidterm Test 25%\nAssignment 1: 15%"
      [inline |-> << Match(1, "Final Exam", "40", "Final Exam: 40%"),
                    Match(1, "Midterm Test 2", "5", "Midterm Test 25%"),
                    Match(1, "Assignment 1", "15", "Assignment 1: 15%"),
                    Match(2, "Midterm Test ", "40", "40%\nMidterm Test "),
                    Match(2, "Assignment ", "25", "25%\nAssignment "),
                    Match(3, "Midterm Test", "25", "Midterm Test 25%"),
                    Match(4, "Final Exam", "40", "Final Exam: 40%"),
                    Match(4, "Test 2", "5", "Test 25%"),
                    Match(4, "Assignment 1", "15", "Assignment 1: 15%") >>,
       raw |-> << Match(5, "Midterm Test", "25", "Midterm Test 25%") >>,
       special |-> <<>>],
      \* "Final Exam: 105%"
      [inline |-> << Match(1, "Final Exam", "105", "Final Exam: 105%"),
                    Match(4, "Final Exam", "105", "Final Exam: 105%") >>,
       raw |-> <<>>,
       special |-> <<>>],
      \* "Quiz 0%"
      [inline |-> << Match(1, "Quiz ", "0", "Quiz 0%"),
                    Match(3, "Quiz", "0", "Quiz 0%"),
                    Match(4, "Quiz", "0", "Quiz 0%") >>,
       raw |-> << Match(5, "Quiz", "0", "Quiz 0%") >>,
       special |-> <<>>],
      \* "Participation 10% Participation in class activities\nLabs 10%"
      [inline |-> << Match(1, "Participation 1", "0", "Participation 10%"),
                    Match(1, "Participation in class activities\nLabs 1", "0", "Participation in class activities\nLabs 10%"),
                    Match(2, "Participation in class activities\nLabs ", "10", "10% Participation in class activities\nLabs "),
                    Match(3, "Participation", "10", "Participation 10%"),
                    Match(3, "Labs", "10", "Labs 10%"),
                    Match(4, "Participation 1", "0", "Participation 10%"),
                    Match(4, "Labs 1", "0", "Labs 10%") >>,
       raw |-> << Match(5, "Participation", "10", "Participation 10%"),
                    Match(5, "Labs", "10", "Labs 10%") >>,
       special |-> <<>>],
      \* "Students must achieve 50% to pass\nEssay 30%"
      [inline |-> << Match(1, "Students must achieve 5", "0", "Students must achieve 50%"),
                    Match(1, "Essay 3", "0", "Essay 30%"),
                    Match(3, "Students must achieve", "50", "Students must achieve 50%"),
                    Match(3, "Essay", "30", "Essay 30%") >>,
       raw |-> << Match(5, "Students must achieve", "50", "Students must achieve 50%"),
                    Match(5, "Essay", "30", "Essay 30%") >>,
       special |-> <<>>],
      \* "Quizzes (optional, best 5) 2% each for up to 10%"
      [inline |-> <<>>,
       raw |-> <<>>,
       special |-> << Match(6, "Quizzes", "10", "Quizzes (optional, best 5) 2% each for up to 10%") >>],
      \* "25% - Final Exam"
      [inline |-> << Match(2, "Final Exam", "25", "25% - Final Exam") >>,
       raw |-> <<>>,
       special |-> <<>>],
      \* "Term Project    60%\nMidterm 120%"
      [inline |-> << Match(1, "Term Project    6", "0", "Term Project    60%"),
                    Match(1, "Midterm 12", "0", "Midterm 120%"),
                    Match(2, "Midterm ", "60", "60%\nMidterm "),
                    Match(3, "Term Project", "60", "Term Project    60%"),
                    Match(3, "Midterm", "120", "Midterm 120%"),
                    Match(4, "Project    6", "0", "Project    60%"),
                    Match(4, "Midterm 12", "0", "Midterm 120%") >>,
       raw |-> << Match(5, "Term Project", "60", "Term Project    60%"),
                    Match(5, "Midterm", "120", "Midterm 120%") >>,
       special |-> <<>>],
      \* "Final Exam: 60%\nMidterm: 45%\nBonus Quiz: 10%"
      [inline |-> << Match(1, "Final Exam", "60", "Final Exam: 60%"),
                    Match(1, "Midterm", "45", "Midterm: 45%"),
                    Match(1, "Bonus Quiz", "10", "Bonus Quiz: 10%"),
                    Match(2, "Midterm", "60", "60%\nMidterm"),
                    Match(2, "Bonus Quiz", "45", "45%\nBonus Quiz"),
                    Match(4, "Final Exam", "60", "Final Exam: 60%"),
                    Match(4, "Midterm", "45", "Midterm: 45%"),
                    Match(4, "Quiz", "10", "Quiz: 10%") >>,
       raw |-> <<>>,
       special |-> <<>>],
      \* "Final Exam: 40%\nFinal Exam: 40%"
      [inline |-> << Match(1, "Final Exam", "40", "Final Exam: 40%"),
                    Match(1, "Final Exam", "40", "Final Exam: 40%"),
                    Match(2, "Final Exam", "40", "40%\nFinal Exam"),
                    Match(4, "Final Exam", "40", "Final Exam: 40%"),
                    Match(4, "Final Exam", "40", "Final Exam: 40%") >>,
       raw |-> <<>>,
       special |-> <<>>] }

\* documents whose only content is one native table
TableDocuments ==
    { [tables |-> <<NativeTable(rows)>>, has_section |-> FALSE, inline |-> <<>>, pdf |-> None] :
        rows \in RowLists }

\* documents with text: in the blocks, in the PDF text, or in both, with or
\* without an evaluation section, with or without a table (one of the tables
\* has a date cell on which the parse raises); reading the PDF text may raise
\* in _extract_from_raw_pdf, in step 1c of extract, or in both
TextDocuments ==
    { [tables |-> tb, has_section |-> hs,
       inline |-> IF where \in {"blocks", "both"} THEN t.inline ELSE <<>>,
       pdf |-> IF where \in {"pdf", "both"}
               THEN Some([raw |-> t.raw, special |-> t.special,
                          raw_raises |-> raises[1], special_raises |-> raises[2]])
               ELSE None] :
        t \in TextPool, hs \in BOOLEAN, where \in {"blocks", "pdf", "both"},
        raises \in BOOLEAN \X BOOLEAN,
        tb \in { <<>>,
                 <<NativeTable(<< <<"Midterm", "30%", "Oct 15">>, <<"Final Exam", "40%", "Dec 10">> >>)>>,
                 <<NativeTable(<< <<"Midterm", "30%", "99999999999">>, <<"Final Exam", "40%", "Dec 10">> >>)>> } }

InitExtractor ==
    /\ pc = "ready"
    /\ doc \in TableDocuments \cup TextDocuments
    /\ all_candidates = <<>>
    /\ rejected_candidates = <<>>
    /\ selected_candidates = <<>>
    /\ extracted = <<>>
    /\ runs = 0
    /\ NoResolver
    /\ NoSelector
    /\ NoFilter
    /\ NoLater

\* tasks = extractor.extract()
Extract ==
    /\ pc \in {"ready", "extracted"}
    /\ runs < MaxRuns
    /\ \E r \in {extract(doc, runs + 1, rejected_candidates)} :
           /\ all_candidates' = r.all_candidates
           /\ rejected_candidates' = r.rejected_candidates
           /\ selected_candidates' = r.selected_candidates
           /\ extracted' = r.tasks
    /\ runs' = runs + 1
    /\ pc' = "extracted"
    /\ UNCHANGED <<doc, resolverVars, selectorVars, filterVars, laterVars>>

NextExtractor == Extract

SpecExtractor == InitExtractor /\ [][NextExtractor]_vars

-----------------------------------------------------------------------------
(* Claims about the extractor *)

InWeightRange(weight) == weight = None \/ (0 < weight[1] /\ weight[1] <= 100)

\* C3: every weight attached to a candidate of the pipeline (from a table,
\* from inline text or from the raw text), and every weight of an emitted
\* task, satisfies 0 < w <= 100.
C3_WeightsInRange ==
    pc = "extracted" =>
        /\ \A k \in 1..Len(all_candidates) : InWeightRange(all_candidates[k].weight)
        /\ \A k \in 1..Len(extracted) : InWeightRange(extracted[k].weight_percent)

\* the document's only assessment evidence is one native table with the
\* header Assessment | Weight | Due Date
OneNativeTable ==
    /\ doc.inline = <<>> /\ doc.pdf = None
    /\ Len(doc.tables) = 1
    /\ doc.tables[1].headers = NativeHeader
    /\ doc.tables[1].table_type = "pdfplumber"

DataRows == Tail(doc.tables[1].rows)

\* the name cell passes the name checks of the generator
HasValidName(row) ==
    LET name == _clean_cell(row[1])
    IN  Len(name) >= 3 /\ ~_is_summary_row(name) /\ ~_is_garbage_title(name)

\* the weight a row carries: the first number of its weight cell when that
\* lies in (0, 100], otherwise none
RowWeight(row) ==
    LET number == FirstNumber(row[2])
    IN  IF number # None /\ 0 < FloatOf(number[1]) /\ FloatOf(number[1]) <= 100
        THEN Some(FloatOf(number[1])) ELSE None

IsTaskOfRow(task, row) ==
    /\ task.title = _clean_cell(row[1])
    /\ task.weight_percent = RowWeight(row)
    /\ task.source_evidence = Join_Bar(row)

\* the policy filter rejects the candidate of the row
IsPolicyRow(row) ==
    filter_candidate(AssessmentCandidate(0, _clean_cell(row[1]), RowWeight(row), None, "",
                                         "pdfplumber", Join_Bar(row), FALSE, FALSE, FALSE, TRUE)).rejected

IsBonusRow(row) == ContainsAny(Lower(_clean_cell(row[1])), BONUS_INDICATORS)

RECURSIVE RowTotal(_)
RowTotal(rows) ==
    IF rows = <<>> THEN 0
    ELSE (IF RowWeight(Head(rows)) = None THEN 0 ELSE RowWeight(Head(rows))[1])
         + RowTotal(Tail(rows))

\* C9 as stated: for a document whose only assessment evidence is one native
\* table Assessment | Weight | Due Date, extract emits exactly one task per
\* data row with a valid name, carrying that row's weight, and no task that
\* does not come from a row (so all rows are returned when they total < 90).
C9_OneTaskPerNamedRow ==
    (pc = "extracted" /\ OneNativeTable) =>
        LET named == SelectSeq(DataRows, HasValidName)
        IN  /\ Len(extracted) = Len(named)
            /\ \A i \in 1..Len(named) : \E k \in 1..Len(extracted) : IsTaskOfRow(extracted[k], named[i])
            /\ \A k \in 1..Len(extracted) : \E i \in 1..Len(named) : IsTaskOfRow(extracted[k], named[i])

\* C9 as amended: for such a document every emitted task comes from a data
\* row that has a valid name and that the policy filter does not reject, and
\* carries that row's weight (none when the weight cell holds no number in
\* (0, 100]); when the weights of these rows, bonus rows aside, total at most
\* 110 (so whenever they total less than 90) there is exactly one task per
\* such row: the non-bonus rows in table order, then the bonus rows.
C9_OneTaskPerRetainedRow ==
    (pc = "extracted" /\ OneNativeTable) =>
        LET IsRetained(row) == HasValidName(row) /\ ~IsPolicyRow(row)
            IsCoreRow(row) == ~IsBonusRow(row)
            retained == SelectSeq(DataRows, IsRetained)
            core == SelectSeq(retained, IsCoreRow)
            ordered == core \o SelectSeq(retained, IsBonusRow)
        IN  /\ \A k \in 1..Len(extracted) :
                  \E i \in 1..Len(retained) : IsTaskOfRow(extracted[k], retained[i])
            /\ RowTotal(core) <= target + tolerance =>
                  /\ Len(extracted) = Len(ordered)
                  /\ \A k \in 1..Len(extracted) : IsTaskOfRow(extracted[k], ordered[k])

\* the table of three rows Midterm 30%, Final Exam 40%, Participation 10%:
\* three tasks, 80% in all
C9_Witness ==
    /\ pc = "extracted"
    /\ OneNativeTable
    /\ DataRows = << <<"Midterm", "30%", "Oct 15">>, <<"Final Exam", "40%", "Dec 10">>,
                     <<"Participation", "10%", "-">> >>
    /\ Len(extracted) = 3
    /\ extracted[1].weight_percent = Some(30)
    /\ extracted[2].weight_percent = Some(40)
    /\ extracted[3].weight_percent = Some(10)
    /\ extracted[1].due_datetime # None

-----------------------------------------------------------------------------
(* document_structure.py: DocumentStructureExtractor                       *)
(* Coordinates and font sizes are whole points.  A PDF file is the list of *)
(* its pages and whether PyMuPDF is installed (HAS_FITZ); a page is what    *)
(* the libraries report of it: its text spans (fitz) or words (pdfplumber), *)
(* its tables, and whether reading it raises.                               *)

TextBlock(text, page_num, x0, y0, x1, y1, font_size, is_bold, font_name) ==
    [text |-> text, page_num |-> page_num, x0 |-> x0, y0 |-> y0, x1 |-> x1, y1 |-> y1,
     font_size |-> font_size, is_bold |-> is_bold, font_name |-> font_name]

\* Section
Section(name, heading_text, start_page, start_y, end_page, end_y, confidence) ==
    [name |-> name, heading_text |-> heading_text, start_page |-> start_page,
     start_y |-> start_y, end_page |-> end_page, end_y |-> end_y, confidence |-> confidence]

\* DocumentStructureExtractor.__init__
NewStructureExtractor ==
    [blocks |-> <<>>, lines |-> <<>>, tables |-> <<>>, sections |-> <<>>,
     headings |-> <<>>, pages |-> <<>>]

\* concatenation of a sequence of sequences
RECURSIVE Flatten(_)
Flatten(seqs) == IF seqs = <<>> THEN <<>> ELSE Head(seqs) \o Flatten(Tail(seqs))

\* index of the first page whose reading raises, 0 when none does
FirstRaising(file_pages) ==
    IF \E k \in 1..Len(file_pages) : file_pages[k].raises
    THEN CHOOSE k \in 1..Len(file_pages) :
            /\ file_pages[k].raises
            /\ \A j \in 1..(k - 1) : ~file_pages[j].raises
    ELSE 0

\* is_bold = "bold" in font_name.lower() or "Bold" in font_name
IsBoldFont(font_name) == Contains(Lower(font_name), "bold") \/ Contains(font_name, "Bold")

\* the spans or words whose stripped text is not empty
WithText(spans) == SelectSeq(spans, LAMBDA sp : Strip(sp.text) # "")

\* the TextBlocks the fitz loop makes of one page
FitzBlocks(page, page_num) ==
    LET kept == WithText(page.spans)
    IN  [k \in 1..Len(kept) |->
            TextBlock(Strip(kept[k].text), page_num, kept[k].x0, kept[k].y0, kept[k].x1,
                      kept[k].y1, kept[k].size, IsBoldFont(kept[k].font), kept[k].font)]

\* word.get("size", 12.0) if "size" in word else 12.0: the words of
\* extract_words() carry no size
DefaultFontSize == 12

\* the TextBlocks the pdfplumber loop makes of one page
PlumberBlocks(page, page_num) ==
    LET kept == WithText(page.spans)
    IN  [k \in 1..Len(kept) |->
            TextBlock(Strip(kept[k].text), page_num, kept[k].x0, kept[k].y0, kept[k].x1,
                      kept[k].y1, DefaultFontSize, FALSE, "")]

\* the entry of self.pages for a page (width and height are left out)
PageEntry(page_num, page_blocks) == [page_num |-> page_num, blocks |-> page_blocks]

\* the pages whose blocks a loop over the file appends before it ends or a
\* page raises; Skips(page) are the pages the loop passes over
PagesRead(file_pages, Skips(_)) ==
    LET k == FirstRaising(file_pages)
        last == IF k = 0 THEN Len(file_pages) ELSE k - 1
    IN  SelectSeq([i \in 1..last |-> i], LAMBDA i : ~Skips(file_pages[i]))

\* _extract_blocks_fitz: doc = fitz.open(...); the loop; doc.close().
\* An exception of page.get_text leaves the function before doc.close().
_extract_blocks_fitz(self, file) ==
    LET read == PagesRead(file.pages, LAMBDA page : FALSE)
        made == [k \in 1..Len(read) |-> FitzBlocks(file.pages[read[k]], read[k])]
        failed == FirstRaising(file.pages) # 0
    IN  [self |-> [self EXCEPT !.blocks = @ \o Flatten(made),
                               !.pages = @ \o [k \in 1..Len(read) |-> PageEntry(read[k], made[k])]],
         raised |-> failed,
         left_open |-> IF failed THEN 1 ELSE 0]

\* _extract_blocks_pdfplumber: with pdfplumber.open(...) as pdf: the loop.
\* A page without chars is passed over; the with statement closes the file
\* on every way out.
_extract_blocks_pdfplumber(self, file) ==
    LET read == PagesRead(file.pages, LAMBDA page : page.spans = <<>>)
        made == [k \in 1..Len(read) |-> PlumberBlocks(file.pages[read[k]], read[k])]
    IN  [self |-> [self EXCEPT !.blocks = @ \o Flatten(made),
                               !.pages = @ \o [k \in 1..Len(read) |-> PageEntry(read[k], made[k])]],
         raised |-> FirstRaising(file.pages) # 0,
         left_open |-> 0]

\* _extract_blocks
_extract_blocks(self, file) ==
    IF file.HAS_FITZ THEN _extract_blocks_fitz(self, file)
    ELSE _extract_blocks_pdfplumber(self, file)

\* sorted(items, key=...): stable, ascending; Less compares the keys
SortedBy(items, Less(_, _)) ==
    LET n == Len(items)
        rank(i) == Cardinality({ j \in 1..n : \/ Less(items[j], items[i])
                                             \/ (~Less(items[i], items[j]) /\ j < i) }) + 1
    IN  [r \in 1..n |-> items[CHOOSE i \in 1..n : rank(i) = r]]

\* sum(numbers)
RECURSIVE SumSeq(_)
SumSeq(numbers) == IF numbers = <<>> THEN 0 ELSE Head(numbers) + SumSeq(Tail(numbers))

\* ReconstructedLine; y_center, the mean of the blocks' center_y
\* ((y0 + y1) / 2), is kept as the fraction <<numerator, denominator>>
ReconstructedLine(line_blocks, page_num) ==
    [blocks |-> line_blocks, page_num |-> page_num,
     y_center |-> <<SumSeq([k \in 1..Len(line_blocks) |-> line_blocks[k].y0 + line_blocks[k].y1]),
                    2 * Len(line_blocks)>>]

y_tolerance == 5

\* the clustering loop of _reconstruct_lines over the sorted blocks of a page
\* from the i-th on; current_line_blocks is empty while current_y is None
RECURSIVE ClusterFrom(_, _, _, _, _)
ClusterFrom(sorted_blocks, i, current_line_blocks, current_y, page_num) ==
    IF i > Len(sorted_blocks)
    THEN IF current_line_blocks = <<>> THEN <<>>
         ELSE <<ReconstructedLine(current_line_blocks, page_num)>>
    ELSE LET block == sorted_blocks[i]
         IN  IF current_line_blocks = <<>>
             THEN ClusterFrom(sorted_blocks, i + 1, <<block>>, block.y0, page_num)
             ELSE IF Abs(block.y0 - current_y) <= y_tolerance
             THEN ClusterFrom(sorted_blocks, i + 1, current_line_blocks \o <<block>>,
                              current_y, page_num)
             ELSE <<ReconstructedLine(current_line_blocks, page_num)>>
                  \o ClusterFrom(sorted_blocks, i + 1, <<block>>, block.y0, page_num)

\* the keys of a dict filled in the order of items: the page numbers in
\* the order of their first appearance
RECURSIVE PageNumbersOf(_)
PageNumbersOf(items) ==
    IF items = <<>> THEN <<>>
    ELSE LET front == PageNumbersOf(SubSeq(items, 1, Len(items) - 1))
             n == items[Len(items)].page_num
         IN  IF \E k \in 1..Len(front) : front[k] = n THEN front ELSE front \o <<n>>

OnPage(items, page_num) == SelectSeq(items, LAMBDA b : b.page_num = page_num)

\* _reconstruct_lines
_reconstruct_lines(self) ==
    LET page_nums == PageNumbersOf(self.blocks)
        lines_of(page_num) ==
            ClusterFrom(SortedBy(OnPage(self.blocks, page_num), LAMBDA a, b : a.y0 < b.y0),
                        1, <<>>, 0, page_num)
    IN  [self EXCEPT !.lines = @ \o Flatten([k \in 1..Len(page_nums) |-> lines_of(page_nums[k])])]

\* DocumentStructureExtractor.SECTION_KEYWORDS, in the order of the dict
SECTION_KEYWORDS ==
    << <<"evaluation", {"evaluation", "assessment", "grading", "grade breakdown",
                        "methods of evaluation", "course evaluation", "grading scheme"}>>,
       <<"course_info", {"course information", "course description", "course details",
                         "course overview"}>>,
       <<"schedule", {"schedule", "calendar", "important dates", "key dates",
                      "course schedule", "lecture schedule"}>>,
       <<"learning_outcomes", {"learning outcomes", "course objectives", "objectives"}>>,
       <<"requirements", {"requirements", "prerequisites", "essential requirements"}>>,
       <<"policies", {"policies", "academic integrity", "accommodations"}>> >>

\* heading_keywords
heading_keywords == UNION { SECTION_KEYWORDS[k][2] : k \in 1..Len(SECTION_KEYWORDS) }

\* a font-size test that leaves the threshold itself out
IsLargeFont_Above(font_size, total, count) == 5 * count * font_size > 6 * total

\* block.font_size >= large_font_threshold, where large_font_threshold is
\* (total / count) * 1.2; for sizes in whole points the float comparison is
\* this one
IsLargeFont(font_size, total, count) == 5 * count * font_size >= 6 * total

\* re.match(r'^\d+\.?\s+[A-Z]', text)
NumberedHeading(text) ==
    LET e == DigitRunEnd(text, 1)
        j == IF CharAt(text, e + 1) = "." THEN e + 2 ELSE e + 1
    IN  e >= 1 /\ SkipSpaces(text, j) > j /\ IsUpper(CharAt(text, SkipSpaces(text, j)))

\* _detect_headings
_detect_headings(self) ==
    LET font_sizes == SelectSeq([k \in 1..Len(self.blocks) |-> self.blocks[k].font_size],
                                LAMBDA size : size > 0)
        IsHeading(block) ==
            \/ IsLargeFont(block.font_size, SumSeq(font_sizes), Len(font_sizes))
            \/ block.is_bold
            \/ ContainsAny(Strip(Lower(block.text)), heading_keywords)
            \/ NumberedHeading(block.text)
    IN  IF self.blocks = <<>> \/ font_sizes = <<>> THEN self
        ELSE [self EXCEPT !.headings = @ \o SelectSeq(self.blocks, IsHeading)]

\* the section type of a heading: the first type of SECTION_KEYWORDS one of
\* whose keywords the text holds, else "other"
SectionTypeOf(heading_text) ==
    LET hits == { k \in 1..Len(SECTION_KEYWORDS) : ContainsAny(heading_text, SECTION_KEYWORDS[k][2]) }
    IN  IF hits = {} THEN "other"
        ELSE SECTION_KEYWORDS[CHOOSE k \in hits : \A j \in hits : k <= j][1]

\* end_y of the last section
EndOfDocumentY == 9999

\* _segment_sections
_segment_sections(self) ==
    LET sorted_headings ==
            SortedBy(self.headings,
                     LAMBDA a, b : a.page_num < b.page_num
                                   \/ (a.page_num = b.page_num /\ a.y0 < b.y0))
        section(i) ==
            LET heading == sorted_headings[i]
                section_type == SectionTypeOf(Strip(Lower(heading.text)))
                last == i + 1 > Len(sorted_headings)
            IN  Section(section_type, heading.text, heading.page_num, heading.y0,
                        IF last THEN Len(self.pages) ELSE sorted_headings[i + 1].page_num,
                        IF last THEN EndOfDocumentY ELSE sorted_headings[i + 1].y0,
                        IF section_type # "other" THEN 8000 ELSE 5000)
    IN  IF self.headings = <<>> THEN self
        ELSE [self EXCEPT !.sections = @ \o [i \in 1..Len(sorted_headings) |-> section(i)]]

\* str(cell) if cell else "" of a cell of page.extract_tables(): a string
\* (Some) or None
CellStr(cell) == IF cell = None THEN "" ELSE cell[1]

\* the DetectedTable of one table of page.extract_tables(); the first row is
\* kept as it came, in front of the converted rows
PlumberTable(table) ==
    DetectedTable([c \in 1..Len(table[1]) |-> CellStr(table[1][c])],
                  <<table[1]>> \o [r \in 1..(Len(table) - 1) |->
                                      [c \in 1..Len(table[r + 1]) |-> CellStr(table[r + 1][c])]],
                  "pdfplumber")

\* _extract_pdfplumber_tables: the with statement closes the file
_extract_pdfplumber_tables(self, file) ==
    LET of_page(page) ==
            LET kept == SelectSeq(page.tables, LAMBDA table : Len(table) >= 2)
            IN  [k \in 1..Len(kept) |-> PlumberTable(kept[k])]
    IN  [self EXCEPT !.tables = @ \o Flatten([k \in 1..Len(file.pages) |-> of_page(file.pages[k])])]

\* " ".join(b.text.strip() for b in blocks if b.text.strip())
JoinTexts(line_blocks) ==
    LET kept == SelectSeq(line_blocks, LAMBDA b : Strip(b.text) # "")
    IN  Join([k \in 1..Len(kept) |-> Strip(kept[k].text)])

\* ReconstructedLine.left_text / right_text: the blocks left of (not left
\* of) the midpoint between the first block's x0 and the last block's x1
HalfText(line, left) ==
    IF line.blocks = <<>> THEN ""
    ELSE LET sorted_blocks == SortedBy(line.blocks, LAMBDA a, b : a.x0 < b.x0)
             twice_midpoint == sorted_blocks[1].x0 + sorted_blocks[Len(sorted_blocks)].x1
         IN  JoinTexts(SelectSeq(sorted_blocks, LAMBDA b : (2 * b.x0 < twice_midpoint) = left))
left_text(line) == HalfText(line, TRUE)
right_text(line) == HalfText(line, FALSE)

\* re.search(r'(\d+(?:\.\d+)?)\s*%?$', right_text) of a stripped text: a
\* digit ends it, or ends what is before spaces and one final "%"
EndsWithPercentage(text) ==
    LET cut == IF text # "" /\ Char(text, Len(text)) = "%"
               THEN RStrip(SubSeq(text, 1, Len(text) - 1)) ELSE text
    IN  cut # "" /\ IsDigit(Char(cut, Len(cut)))

\* the table rows _reconstruct_tables collects from the lines of a page
TableRowsOf(page_lines) ==
    LET qualifies(line) ==
            /\ EndsWithPercentage(Strip(right_text(line)))
            /\ Len(Strip(left_text(line))) > 3
        kept == SelectSeq(page_lines, qualifies)
    IN  [k \in 1..Len(kept) |-> <<Strip(left_text(kept[k])), Strip(right_text(kept[k]))>>]

\* _reconstruct_tables
_reconstruct_tables(self) ==
    LET page_nums == PageNumbersOf(self.lines)
        table_of(page_num) ==
            LET table_rows == TableRowsOf(OnPage(self.lines, page_num))
            IN  IF Len(table_rows) >= 2
                THEN <<DetectedTable(<<"Item", "Weight">>, table_rows, "reconstructed")>>
                ELSE <<>>
    IN  [self EXCEPT !.tables = @ \o Flatten([k \in 1..Len(page_nums) |-> table_of(page_nums[k])])]

\* _extract_tables
_extract_tables(self, file) == _reconstruct_tables(_extract_pdfplumber_tables(self, file))

\* DocumentStructureExtractor(pdf_path).extract(): the object it leaves
\* (self), whether an exception left it, and the handles it left open
DocumentStructureExtractor_extract(file) ==
    With(_extract_blocks(NewStructureExtractor, file),
         LAMBDA read :
            IF read.raised THEN read
            ELSE [self |-> _extract_tables(
                               _segment_sections(_detect_headings(_reconstruct_lines(read.self))),
                               file),
                  raised |-> FALSE,
                  left_open |-> read.left_open])

-----------------------------------------------------------------------------
(* The structure extractor's caller (pdf_extractor.py:97-112): PDF files,   *)
(* doc_extractor.extract() and the generator's pass over the tables         *)

Span(text, x0, y0, x1, y1, size, font) ==
    [text |-> text, x0 |-> x0, y0 |-> y0, x1 |-> x1, y1 |-> y1, size |-> size, font |-> font]

PdfPage(spans, tables, raises) == [spans |-> spans, tables |-> tables, raises |-> raises]

\* spans of heading and body text: sizes 12 and 8 (12 is 1.2 times their
\* mean), 119 and 81 (119 is 1.19 times their mean), a bold span and a
\* keyword span on one line, a numbered span
HeadingSpans ==
    { Span("Introduction", 50, 100, 150, 112, 12, "Helvetica"),
      Span("details", 50, 130, 90, 138, 8, "Helvetica"),
      Span("Summary", 50, 300, 400, 419, 119, "Helvetica"),
      Span("notes", 50, 430, 300, 511, 81, "Helvetica"),
      Span("Evaluation", 50, 200, 120, 210, 10, "Helvetica-Bold"),
      Span("Grading", 160, 200, 210, 210, 10, "Helvetica"),
      Span("2. Readings", 50, 600, 120, 610, 10, "Helvetica") }

HeadingPages ==
    UNION { { PdfPage(spans, <<>>, FALSE) : spans \in [1..n -> HeadingSpans] } : n \in 0..MaxSpans }

HeadingFiles ==
    UNION { { [HAS_FITZ |-> has_fitz, pages |-> pages] :
                has_fitz \in BOOLEAN, pages \in [1..n -> HeadingPages] } : n \in 1..MaxPages }

\* lines of a grade breakdown: the item at the left, the weight at the right
\* (none for a line of plain text)
LinePool ==
    { <<"Midterm Exam", "30%">>, <<"Final Exam", "40 %">>, <<"Assignments", "30">>,
      <<"Lab", "10%">>, <<"Course Notes", "">>, <<"Total", "100%">> }

\* the spans of the k-th line of a page
LineSpans(line, k) ==
    LET y == 100 + 20 * k
    IN  <<Span(line[1], 50, y, 50 + 8 * Len(line[1]), y + 10, 10, "Helvetica")>>
        \o (IF line[2] = "" THEN <<>>
            ELSE <<Span(line[2], 450, y + 2, 450 + 8 * Len(line[2]), y + 12, 10, "Helvetica")>>)

\* what page.extract_tables() returns: nothing, a table with an empty cell,
\* a table of one row
TablePool ==
    { <<>>,
      << << <<Some("Assessment"), Some("Weight")>>, <<Some("Essay"), Some("20%")>>,
            <<Some("Project"), None>> >> >>,
      << << <<Some("Office"), Some("Hours")>> >> >> }

LineFiles ==
    UNION { { [HAS_FITZ |-> has_fitz,
               pages |-> <<PdfPage(Flatten([k \in 1..n |-> LineSpans(lines[k], k)]), tables, raises)>>] :
                has_fitz \in BOOLEAN, lines \in [1..n -> LinePool], tables \in TablePool,
                raises \in BOOLEAN } : n \in 0..MaxLines }

InitStructure ==
    /\ pc = "constructed"
    /\ pdf \in HeadingFiles \cup LineFiles
    /\ structure = NewStructureExtractor
    /\ open_handles = 0
    /\ raised = FALSE
    /\ from_tables = <<>>
    /\ OnlyStructure

\* doc_structure = doc_extractor.extract()
ExtractStructure ==
    /\ pc = "constructed"
    /\ \E r \in {DocumentStructureExtractor_extract(pdf)} :
           /\ structure' = r.self
           /\ open_handles' = open_handles + r.left_open
           /\ raised' = r.raised
           /\ pc' = IF r.raised THEN "failed" ELSE "structured"
    /\ UNCHANGED <<pdf, from_tables, besidesStructure>>

\* AssessmentCandidateGenerator(doc_structure)._from_tables()
FromTables ==
    /\ pc = "structured"
    /\ from_tables' = _from_tables(structure.tables)
    /\ pc' = "generated"
    /\ UNCHANGED <<pdf, structure, open_handles, raised, besidesStructure>>

NextStructure == ExtractStructure \/ FromTables

SpecStructure == InitStructure /\ [][NextStructure]_vars

-----------------------------------------------------------------------------
(* Claims about the structure extractor *)

Structured == pc \in {"structured", "generated"}

\* a fragment that is not bold, matches no numbered-heading pattern and
\* holds no section keyword
IsPlainFragment(block) ==
    /\ ~block.is_bold
    /\ ~NumberedHeading(block.text)
    /\ \A kw \in heading_keywords : ~Contains(Lower(block.text), kw)

IsDetectedHeading(block) ==
    \E k \in 1..Len(structure.headings) : structure.headings[k] = block

\* font_size compared with 1.2 times the mean font size of the fragments:
\* -1 below, 0 equal, 1 above
AgainstThreshold(block) ==
    LET sizes == [k \in 1..Len(structure.blocks) |-> structure.blocks[k].font_size]
        lhs == 5 * Len(sizes) * block.font_size
        rhs == 6 * SumSeq(sizes)
    IN  IF lhs < rhs THEN -1 ELSE IF lhs = rhs THEN 0 ELSE 1

\* C12: after extraction a fragment that is not bold, matches no numbered-
\* heading pattern and holds no section keyword is a heading if and only if
\* its font size is at least 1.2 times the mean font size of the document's
\* fragments (so at exactly 1.20 times it is, at 1.19 times it is not).
C12_HeadingIffLargeFont ==
    Structured =>
        \A k \in 1..Len(structure.blocks) :
            LET block == structure.blocks[k]
            IN  IsPlainFragment(block) =>
                    (IsDetectedHeading(block) <=> AgainstThreshold(block) >= 0)

\* a plain fragment at exactly 1.2 times the mean is among the headings,
\* beside a plain fragment that is not
C12_Witness ==
    /\ Structured
    /\ \E k, j \in 1..Len(structure.blocks) :
          /\ IsPlainFragment(structure.blocks[k])
          /\ AgainstThreshold(structure.blocks[k]) = 0
          /\ IsDetectedHeading(structure.blocks[k])
          /\ IsPlainFragment(structure.blocks[j])
          /\ ~IsDetectedHeading(structure.blocks[j])

\* C13: every Section built by _segment_sections has an end bound
\* (end_page, end_y) strictly after its start bound (start_page, start_y) in
\* (page, y) order.
C13_SectionEndsAfterStart ==
    Structured =>
        \A k \in 1..Len(structure.sections) :
            LET section == structure.sections[k]
            IN  \/ section.start_page < section.end_page
                \/ (section.start_page = section.end_page /\ section.start_y < section.end_y)

-----------------------------------------------------------------------------
(* Claims about confidences *)

\* 1.0 in the unit of scores and confidences
FullConfidence == 10000

InUnitInterval(tasks) ==
    \A k \in 1..Len(tasks) : tasks[k].confidence \in 0..FullConfidence

\* C14: the confidence of every AssessmentTask is within [0, 1]: the scorer's
\* sum never exceeds 1.0 whatever features a candidate has, so every task the
\* pipeline returns is within the bounds, and so is every task after any
\* number of resolve_rules passes, which add 0.2 and cap the sum at 1.0.
C14_ConfidenceInUnitInterval ==
    /\ \A flags \in [1..5 -> BOOLEAN] : FloatSum(flags) \in 0..FullConfidence
    /\ InUnitInterval(extracted)
    /\ InUnitInterval(assessments)
    /\ InUnitInterval(resolved)
    /\ InUnitInterval(generated)

\* two passes were made over a task that entered with a rule, no timestamp
\* and a confidence of 0.9: it left with 1.0, the cap having acted
C14_Witness ==
    /\ pc = "resolved"
    /\ passes = MaxPasses
    /\ \E k \in 1..Len(assessments) :
           /\ assessments[k].due_datetime # None
           /\ assessments[k].due_rule # ""
           /\ assessments[k].confidence = FullConfidence

-----------------------------------------------------------------------------
(* _to_assessment_tasks typing one selected candidate                      *)
(* (assessment_extractor.py:841-843)                                       *)

\* the words titles are made of: every keyword of _infer_type in some case,
\* one word that holds a keyword inside it and one that holds none
TitleWords ==
    { "Final", "EXAM", "Midterm", "quiz", "Test", "Assignment", "homework", "Lab",
      "Project", "participation", "Attendance", "Presentation", "Collaboration", "Essay" }

TitlePool ==
    TitleWords \cup { first \o " " \o second : first \in TitleWords, second \in TitleWords }
               \cup { "", "Reading Response 3", "Final Examination", "Pretest", "Finalexam" }

InitType ==
    /\ pc = "selected"
    /\ typed_title \in TitlePool
    /\ task_type = ""
    /\ OnlyType

\* assessment_type = self._infer_type(candidate.title)
InferType ==
    /\ pc = "selected"
    /\ task_type' = _infer_type(typed_title)
    /\ pc' = "typed"
    /\ UNCHANGED <<typed_title, besidesType>>

NextType == InferType

SpecType == InitType /\ [][NextType]_vars

-----------------------------------------------------------------------------
(* Claims about _infer_type *)

\* the priority list as the specification gives it: the type of each rule with
\* the alternatives that match it, an alternative being the keywords a title
\* must all hold
TypePriority ==
    << <<"final_exam", {{"final", "exam"}}>>,
       <<"midterm", {{"midterm"}}>>,
       <<"quiz", {{"quiz"}, {"test"}}>>,
       <<"assignment", {{"assignment"}, {"homework"}}>>,
       <<"lab", {{"lab"}}>>,
       <<"project", {{"project"}}>>,
       <<"participation", {{"participation"}, {"attendance"}}>>,
       <<"presentation", {{"presentation"}}>>,
       <<"exam", {{"exam"}}>> >>

MatchingRules(task_title) ==
    { k \in 1..Len(TypePriority) :
        \E alternative \in TypePriority[k][2] :
            \A keyword \in alternative : Contains(Lower(task_title), keyword) }

\* C15: _infer_type gives a title the type of the first rule that matches it
\* in the priority final-exam > midterm > quiz/test > assignment/homework >
\* lab > project > participation/attendance > presentation > exam; a title
\* that matches several rules gets the type of the highest one and a title
\* that matches none gets "other".
C15_TypeOfFirstMatchingRule ==
    /\ pc = "typed" =>
          LET matching == MatchingRules(typed_title)
          IN  IF matching = {} THEN task_type = "other"
              ELSE \E first \in matching :
                      /\ \A k \in matching : first <= k
                      /\ task_type = TypePriority[first][1]
    /\ \A k \in 1..Len(extracted) :
          LET matching == MatchingRules(extracted[k].title)
          IN  IF matching = {} THEN extracted[k].type = "other"
              ELSE \E first \in matching :
                      /\ \A j \in matching : first <= j
                      /\ extracted[k].type = TypePriority[first][1]

\* a title that matches the midterm rule and the exam rule was typed midterm
C15_Witness ==
    /\ pc = "typed"
    /\ Cardinality(MatchingRules(typed_title)) >= 2
    /\ 9 \in MatchingRules(typed_title)
    /\ task_type = "midterm"

-----------------------------------------------------------------------------
(* course_extractor.py: CourseInfoExtractor                                *)
(*                                                                         *)
(* The score of a title candidate is a Python float: a sum of the literals  *)
(* 0.1, 0.15, ... in IEEE-754 double arithmetic.  A double x is the pair    *)
(* <<h, e>> with x * 25 * 2^60 = h * 2^58 + e: h is x in hundredths and e   *)
(* what the double differs from h/100 by, in units of 2^-60 / 25.           *)

\* the doubles the decimal literals of _score_candidate are read as
FloatLiteral ==
    (10 :> <<10, 160>>) @@ (15 :> <<15, -160>>) @@ (20 :> <<20, 320>>) @@ (25 :> <<25, 0>>) @@
    (30 :> <<30, -320>>) @@ (80 :> <<80, 1280>>) @@ (100 :> <<100, 0>>)

FloatNeg(x) == <<-x[1], -x[2]>>

FloatLess(x, y) == x[1] < y[1] \/ (x[1] = y[1] /\ x[2] < y[2])

\* k for a double of magnitude a/100 + f: its unit in the last place is
\* 25 * 2^k of the units of e (2^-52 from 1.0 up to 2.0, halved per binade)
UlpExponent(a, f) ==
    IF a > 200 \/ (a = 200 /\ f >= 0) THEN 9
    ELSE IF a > 100 \/ (a = 100 /\ f >= 0) THEN 8
    ELSE IF a > 50 \/ (a = 50 /\ f >= 0) THEN 7
    ELSE IF a > 25 \/ (a = 25 /\ f >= 0) THEN 6
    ELSE IF a > 12 THEN 5
    ELSE IF a > 6 THEN 4
    ELSE 3

RECURSIVE Pow2(_)
Pow2(n) == IF n = 0 THEN 1 ELSE 2 * Pow2(n - 1)

RECURSIVE Pow2Mod25(_)
Pow2Mod25(n) == IF n = 0 THEN 1 ELSE (2 * Pow2Mod25(n - 1)) % 25

\* x + y of two doubles: the exact sum rounded to the nearest double, ties to
\* the even one; a sum of zero hundredths is exact
FloatAdd(x, y) ==
    LET h == x[1] + y[1]
        e == x[2] + y[2]
    IN  IF h = 0 THEN <<0, e>>
        ELSE LET sign == IF h > 0 THEN 1 ELSE -1
                 a == sign * h
                 f == sign * e
                 k == UlpExponent(a, f)
                 ulp == 25 * Pow2(k)
                 base == 2 * Pow2(k) * ((a * Pow2Mod25(57 - k)) % 25)
                 r2 == (base + f + 64 * 2 * ulp) % (2 * ulp)
                 r == r2 % ulp
                 up == 2 * r > ulp \/ (2 * r = ulp /\ r2 >= ulp)
             IN  <<h, sign * (IF up THEN f + ulp - r ELSE f - r)>>

\* the float a sequence of "score += literal" steps leaves, from score on
RECURSIVE FloatAddAll(_, _)
FloatAddAll(score_so_far, addends) ==
    IF addends = <<>> THEN score_so_far
    ELSE FloatAddAll(FloatAdd(score_so_far, Head(addends)), Tail(addends))

RECURSIVE Upper(_)
Upper(s) ==
    IF Len(s) = 0 THEN ""
    ELSE IF Len(s) = 1 THEN UpperChar(s)
    ELSE LET h == Len(s) \div 2
         IN  Upper(SubSeq(s, 1, h)) \o Upper(SubSeq(s, h + 1, Len(s)))

\* CourseTitleCandidate (course_extractor.py:15-35)
CourseTitleCandidate(text, page_num, y_position, font_size, is_bold, near_course_code, in_top_third, has_allowed_chars, has_negative_keywords) ==
    [text |-> text, page_num |-> page_num, y_position |-> y_position, font_size |-> font_size,
     is_bold |-> is_bold, near_course_code |-> near_course_code, in_top_third |-> in_top_third,
     has_allowed_chars |-> has_allowed_chars, has_negative_keywords |-> has_negative_keywords,
     score |-> <<0, 0>>]

length_valid(c) == 8 <= Len(c.text) /\ Len(c.text) <= 120

NEGATIVE_KEYWORDS ==
    { "course outline", "syllabus", "faculty of", "department of", "university", "western",
      "school of", "course information", "fall 2", "winter 2", "summer 2", "academic year",
      "www.", "http", "@", "email", "phone", "office hours", "instructor", "professor", "dr.",
      "outline", "calendar", "department", "faculty", "engineering", "sciences", "science",
      "arts", "humanities", "london", "ontario", "canada", "academic", "information",
      "acknowledgment", "acknowledgement" }

TITLE_WORDS ==
    { "introduction", "methods", "analysis", "theory", "principles", "fundamentals", "advanced",
      "applied", "computational", "organic", "inorganic", "biochemistry", "physiology",
      "anatomy", "calculus", "algebra", "statistics", "programming", "systems", "design" }

single_word_generic ==
    { "department", "faculty", "engineering", "sciences", "science", "academic", "information",
      "arts", "humanities", "medicine" }

\* ALLOWED_TITLE_CHARS.match(text): ^[A-Za-z\s\-\:&,\'\"\(\)]+$
ALLOWED_TITLE_CHARS(text) ==
    /\ text # ""
    /\ \A i \in 1..Len(text) :
          \/ IsAlpha(Char(text, i))
          \/ IsSpace(Char(text, i))
          \/ Char(text, i) \in {"-", ":", "&", ",", "'", "\"", "(", ")"}

\* re.search(r'[A-Za-z]{3,}', text)
HasThreeLetters(text) ==
    \E i \in 1..(Len(text) - 2) :
        IsAlpha(Char(text, i)) /\ IsAlpha(Char(text, i + 1)) /\ IsAlpha(Char(text, i + 2))

\* first index >= i of s that holds no capital letter
RECURSIVE UpperRunEnd(_, _)
UpperRunEnd(s, i) ==
    IF i <= Len(s) /\ IsUpper(Char(s, i)) THEN UpperRunEnd(s, i + 1) ELSE i

\* a match of COURSE_CODE_PATTERN that starts at index i of s:
\*   \b([A-Z]{2,5})\s*[\-\/]?\s*(\d{3,4}[A-Z]?(?:/[A-Z])?)\b
\* as "group1 group2", or "" when there is none
CourseCodeAt(s, i) ==
    LET letters_end == UpperRunEnd(s, i)
        after_space == SkipSpaces(s, letters_end)
        after_separator == IF CharAt(s, after_space) \in {"-", "/"}
                           THEN SkipSpaces(s, after_space + 1) ELSE after_space
        digits_end == DigitRunEnd(s, after_separator) + 1
        boundary(j) == ~IsWordChar(CharAt(s, j))
        suffix(j) == \* [A-Z]? is behind; the index after (?:/[A-Z])?\b, or 0
            IF CharAt(s, j) = "/" /\ IsUpper(CharAt(s, j + 1)) /\ boundary(j + 2) THEN j + 2
            ELSE IF boundary(j) THEN j
            ELSE 0
        group_end ==
            IF IsUpper(CharAt(s, digits_end)) THEN suffix(digits_end + 1) ELSE suffix(digits_end)
    IN  IF /\ (i = 1 \/ ~IsWordChar(Char(s, i - 1)))
           /\ letters_end - i \in 2..5
           /\ digits_end - after_separator \in 3..4
           /\ group_end # 0
        THEN SubSeq(s, i, letters_end - 1) \o " " \o SubSeq(s, after_separator, group_end - 1)
        ELSE ""

\* COURSE_CODE_PATTERN.search(text): the code of the leftmost match, or None
COURSE_CODE_PATTERN(text) ==
    LET starts == { i \in 1..Len(text) : CourseCodeAt(text, i) # "" }
    IN  IF starts = {} THEN None
        ELSE Some(CourseCodeAt(text, CHOOSE i \in starts : \A j \in starts : i <= j))

first_page_blocks(document) == SelectSeq(document.blocks, LAMBDA b : b.page_num = 1)

\* _extract_course_code: [course_code, course_code_position]
_extract_course_code(document) ==
    LET page_blocks == first_page_blocks(document)
        matching == { k \in 1..Len(page_blocks) : COURSE_CODE_PATTERN(page_blocks[k].text) # None }
    IN  IF matching = {} THEN [course_code |-> None, course_code_position |-> None]
        ELSE LET block == page_blocks[CHOOSE k \in matching : \A j \in matching : k <= j]
             IN  [course_code |-> COURSE_CODE_PATTERN(block.text),
                  course_code_position |-> Some(<<block.page_num, block.y0>>)]

\* page_info.get('height', 800)
DefaultPageHeight == 800

\* _find_title_candidates
_find_title_candidates(document, course_code_position) ==
    LET page_blocks == first_page_blocks(document)
        font_sizes == SelectSeq([k \in 1..Len(page_blocks) |-> page_blocks[k].font_size],
                                LAMBDA size : size > 0)
        page_height == IF document.pages = <<>> THEN DefaultPageHeight
                       ELSE document.pages[1].height
        kept(block) ==
            LET text == Strip(block.text)
            IN  Len(text) >= 8 /\ Len(text) <= 120 /\ HasThreeLetters(text)
        candidate_of(block) ==
            LET text == Strip(block.text)
                text_lower == Lower(text)
            IN  CourseTitleCandidate(
                    text, block.page_num, block.y0, block.font_size, block.is_bold,
                    /\ course_code_position # None
                    /\ block.page_num = course_code_position[1][1]
                    /\ Abs(block.y0 - course_code_position[1][2]) < 100,
                    3 * block.y0 < page_height,
                    ALLOWED_TITLE_CHARS(text),
                    \E kw \in NEGATIVE_KEYWORDS : Contains(text_lower, kw))
        kept_blocks == SelectSeq(page_blocks, kept)
    IN  IF page_blocks = <<>> \/ font_sizes = <<>> THEN <<>>
        ELSE [k \in 1..Len(kept_blocks) |-> candidate_of(kept_blocks[k])]

\* the literals _score_candidate adds, in the order it adds them
ScoreAddends(document, c) ==
    LET text_lower == Strip(Lower(c.text))
        words == Split(c.text)
        first_page_fonts == SelectSeq([k \in 1..Len(document.blocks) |-> document.blocks[k]],
                                      LAMBDA b : b.page_num = 1 /\ b.font_size > 0)
        count == Len(first_page_fonts)
        total == SumSeq([k \in 1..count |-> first_page_fonts[k].font_size])
        \* candidate.font_size > avg_font * 1.3, and * 1.1
        above13 == count > 0 /\ 10 * count * c.font_size > 13 * total
        above11 == count > 0 /\ 10 * count * c.font_size > 11 * total
        steps ==
            << <<c.has_negative_keywords, FloatNeg(FloatLiteral[80])>>,
               <<Len(words) = 1 /\ text_lower \in single_word_generic, FloatNeg(FloatLiteral[100])>>,
               <<above13, FloatLiteral[30]>>,
               <<~above13 /\ above11, FloatLiteral[15]>>,
               <<c.is_bold, FloatLiteral[15]>>,
               <<c.near_course_code, FloatLiteral[25]>>,
               <<c.in_top_third, FloatLiteral[15]>>,
               <<c.has_allowed_chars, FloatLiteral[10]>>,
               <<length_valid(c), FloatLiteral[10]>>,
               <<Len(words) >= 2 /\ IsUpper(Char(c.text, 1)), FloatLiteral[10]>>,
               <<\E tw \in TITLE_WORDS : Contains(text_lower, tw), FloatLiteral[25]>>,
               <<Len(words) > 12 \/ Char(c.text, Len(c.text)) = ".", FloatNeg(FloatLiteral[20])>>,
               <<c.text = Upper(c.text) /\ Len(words) <= 2, FloatNeg(FloatLiteral[15])>> >>
        taken == SelectSeq(steps, LAMBDA step : step[1])
    IN  [k \in 1..Len(taken) |-> taken[k][2]]

\* _score_candidate
_score_candidate(document, c) ==
    [c EXCEPT !.score = FloatAddAll(<<0, 0>>, ScoreAddends(document, c))]

\* best.score < 0.3
BelowThreshold(best_score) == FloatLess(best_score, FloatLiteral[30])

\* CourseInfoExtractor.extract: <<course_code, course_title>>
CourseInfoExtractor_extract(document) ==
    With(_extract_course_code(document),
         LAMBDA found :
            With(_find_title_candidates(document, found.course_code_position),
                 LAMBDA found_candidates :
                    With([k \in 1..Len(found_candidates) |->
                             _score_candidate(document, found_candidates[k])],
                         LAMBDA scored :
                            IF scored = <<>> THEN <<found.course_code, None>>
                            ELSE LET ranked == SortedBy(scored,
                                                        LAMBDA c1, c2 : FloatLess(c2.score, c1.score))
                                     best == ranked[1]
                                 IN  IF BelowThreshold(best.score)
                                     THEN <<found.course_code, None>>
                                     ELSE <<found.course_code, Some(best.text)>>)))

-----------------------------------------------------------------------------
(* The course extractor's caller (pdf_extractor.py:126-127)                *)

\* first-page and second-page fragments: a course code, titles in a large,
\* bold or plain font, institutional lines, a sentence, a generic word, and
\* capitalised and plain lines whose features sum to exactly 0.30
BlockPool ==
    { TextBlock("CS 2210A", 1, 50, 60, 300, 72, 10, FALSE, ""),
      TextBlock("Introduction to Algorithms", 1, 50, 120, 300, 136, 16, TRUE, ""),
      TextBlock("DATA STRUCTURES", 1, 50, 100, 300, 112, 10, FALSE, ""),
      TextBlock("Readings and problem sets", 1, 50, 400, 300, 412, 10, FALSE, ""),
      TextBlock("Department of Computer Science", 1, 50, 30, 300, 42, 12, TRUE, ""),
      TextBlock("Course notes are posted weekly on the site.", 1, 50, 500, 300, 512, 10, FALSE, ""),
      TextBlock("Engineering", 1, 50, 80, 300, 92, 14, FALSE, ""),
      TextBlock("Week 3: Sorting", 1, 50, 300, 300, 312, 10, FALSE, ""),
      TextBlock("Labs, Tutorials & More", 1, 50, 640, 300, 652, 10, FALSE, ""),
      TextBlock("Advanced Topics in Theory", 2, 50, 90, 300, 110, 18, TRUE, "") }

LetterPageHeight == 792

CourseDocuments ==
    { [blocks |-> blocks, pages |-> <<[height |-> LetterPageHeight]>>] :
        blocks \in { bs \in UNION { [1..n -> BlockPool] : n \in 0..MaxBlocks } :
                        \A i, j \in 1..Len(bs) : i # j => bs[i] # bs[j] } }

InitCourse ==
    /\ pc = "constructed"
    /\ course_doc \in CourseDocuments
    /\ course_info = None
    /\ OnlyCourse

\* course_code, course_name = course_extractor.extract()
ExtractCourse ==
    /\ pc = "constructed"
    /\ course_info' = CourseInfoExtractor_extract(course_doc)
    /\ pc' = "identified"
    /\ UNCHANGED <<course_doc, besidesCourse>>

NextCourse == ExtractCourse

SpecCourse == InitCourse /\ [][NextCourse]_vars

-----------------------------------------------------------------------------
(* Claims about the course extractor *)

\* the title candidates of the document, scored
TitleCandidates ==
    LET found == _find_title_candidates(course_doc,
                                        _extract_course_code(course_doc).course_code_position)
    IN  [k \in 1..Len(found) |-> _score_candidate(course_doc, found[k])]

\* the score of a candidate as the sum of the weights of its features, in
\* hundredths
WeightSum(c) ==
    LET addends == ScoreAddends(course_doc, c)
    IN  SumSeq([k \in 1..Len(addends) |-> addends[k][1]])

\* C16: extract returns as title the text of the highest-scoring first-page
\* title candidate when that score is at least 0.3, and no title when there
\* is no candidate or the best score is below 0.3.
C16_TitleOfBestCandidate ==
    pc = "identified" =>
        \E scored \in {TitleCandidates} :
            LET sums == { WeightSum(scored[k]) : k \in 1..Len(scored) }
            IN  IF sums = {} \/ SetMax(sums) < 30
                THEN course_info[2] = None
                ELSE \E k \in 1..Len(scored) :
                        /\ WeightSum(scored[k]) = SetMax(sums)
                        /\ course_info[2] = Some(scored[k].text)

-----------------------------------------------------------------------------
(* Claims about failures inside an extraction strategy *)

\* the document with what failed taken out: the matches of a reading that
\* raises are gone, and a date cell on which the parse raises holds no date
WithoutFailures(document) ==
    [document EXCEPT
        !.tables = [t \in 1..Len(document.tables) |->
                       [document.tables[t] EXCEPT
                           !.rows = [r \in 1..Len(document.tables[t].rows) |->
                                        [c \in 1..Len(document.tables[t].rows[r]) |->
                                            IF dateparser_raises(Lower(Strip(document.tables[t].rows[r][c])))
                                            THEN "-" ELSE document.tables[t].rows[r][c]]]]],
        !.pdf = IF document.pdf = None THEN None
                ELSE Some([raw |-> IF document.pdf[1].raw_raises THEN <<>> ELSE document.pdf[1].raw,
                           special |-> IF document.pdf[1].special_raises THEN <<>>
                                       ELSE document.pdf[1].special,
                           raw_raises |-> FALSE, special_raises |-> FALSE])]

\* a task without the text it was found in
WithoutEvidence(tasks) == [k \in 1..Len(tasks) |-> [tasks[k] EXCEPT !.source_evidence = ""]]

HasRaisingCell(document) ==
    \E t \in 1..Len(document.tables) : \E r \in 2..Len(document.tables[t].rows) :
        \E c \in 1..Len(document.tables[t].rows[r]) :
            dateparser_raises(Lower(Strip(document.tables[t].rows[r][c])))

-----------------------------------------------------------------------------
(* Claims about the document handle *)

\* C18: the document handle opened for fragment extraction is released on
\* every exit path of block extraction, the path where parsing a page raises
\* included: once extract has returned or raised, no handle is left open.
C18_HandleReleased ==
    pc \in {"structured", "generated", "failed"} => open_handles = 0

-----------------------------------------------------------------------------
(* models.py: the stored data and its serialization helpers                 *)
(*                                                                         *)
(* Dates are day numbers of 2026 as above (day 0 is 2026-01-05); their ISO   *)
(* strings are built and parsed character by character.  A time is a whole  *)
(* hour.  A JSON object is a function on its keys, a JSON array a sequence, *)
(* null is None; json.dumps and json.loads carry such values unchanged.     *)

CourseTerm(term_name, start_date, end_date, timezone) ==
    [term_name |-> term_name, start_date |-> start_date, end_date |-> end_date,
     timezone |-> timezone]

ExtractedCourseData(trm, lecture_sections, lab_sections, tasks, course_code, course_name) ==
    [term |-> trm, lecture_sections |-> lecture_sections, lab_sections |-> lab_sections,
     assessments |-> tasks, course_code |-> course_code, course_name |-> course_name]

UserSelections(selected_lecture_section, selected_lab_section, assessment_overrides) ==
    [selected_lecture_section |-> selected_lecture_section,
     selected_lab_section |-> selected_lab_section,
     assessment_overrides |-> assessment_overrides]

CacheEntry(pdf_hash, extracted_data, user_selections, generated_ics, timestamp) ==
    [pdf_hash |-> pdf_hash, extracted_data |-> extracted_data,
     user_selections |-> user_selections, generated_ics |-> generated_ics,
     timestamp |-> timestamp]

MonthLengths == <<31, 28, 31, 30, 31, 30, 31, 31, 30, 31, 30, 31>>

\* <<month, day>> of the day_of_year-th day counted from the first of month
RECURSIVE MonthDay(_, _)
MonthDay(day_of_year, month) ==
    IF day_of_year <= MonthLengths[month] THEN <<month, day_of_year>>
    ELSE MonthDay(day_of_year - MonthLengths[month], month + 1)

\* number of days of the year before the first of month
RECURSIVE DaysBefore(_)
DaysBefore(month) == IF month = 1 THEN 0 ELSE DaysBefore(month - 1) + MonthLengths[month - 1]

Pad2(n) == IF n < 10 THEN "0" \o ToString(n) ELSE ToString(n)

\* d.isoformat()
serialize_date(d) ==
    LET md == MonthDay(d + 5, 1) IN "2026-" \o Pad2(md[1]) \o "-" \o Pad2(md[2])

\* date.fromisoformat(s)
deserialize_date(s) == DaysBefore(ToInt(SubSeq(s, 6, 7))) + ToInt(SubSeq(s, 9, 10)) - 5

\* t.isoformat() and time.fromisoformat(s)
serialize_time(t) == Pad2(t) \o ":00:00"
deserialize_time(s) == ToInt(SubSeq(s, 1, 2))

\* dt.isoformat() and datetime.fromisoformat(s)
serialize_datetime(dt) == serialize_date(dt \div 24) \o "T" \o serialize_time(dt % 24)
deserialize_datetime(s) ==
    combine(deserialize_date(SubSeq(s, 1, 10)), deserialize_time(SubSeq(s, 12, 19)))

-----------------------------------------------------------------------------
(* cache.py: CacheManager *)

_serialize_section(section) ==
    LET result == [section_type |-> section.section_type, section_id |-> section.section_id,
                   days_of_week |-> section.days_of_week,
                   start_time |-> serialize_time(section.start_time),
                   end_time |-> serialize_time(section.end_time),
                   location |-> section.location]
    IN  IF section.date_range # None
        THEN result @@ [date_range |-> <<serialize_date(section.date_range[1][1]),
                                         serialize_date(section.date_range[1][2])>>]
        ELSE result

_deserialize_section(data) ==
    [section_type |-> data.section_type, section_id |-> data.section_id,
     days_of_week |-> data.days_of_week,
     start_time |-> deserialize_time(data.start_time),
     end_time |-> deserialize_time(data.end_time),
     location |-> IF "location" \in DOMAIN data THEN data.location ELSE None,
     date_range |-> IF "date_range" \in DOMAIN data /\ data.date_range # <<>>
                    THEN Some(<<deserialize_date(data.date_range[1]),
                                deserialize_date(data.date_range[2])>>)
                    ELSE None]

_serialize_assessment(assessment) ==
    LET result == [title |-> assessment.title, type |-> assessment.type,
                   weight_percent |-> assessment.weight_percent,
                   confidence |-> assessment.confidence,
                   source_evidence |-> assessment.source_evidence,
                   needs_review |-> assessment.needs_review,
                   due_rule |-> assessment.due_rule, rule_anchor |-> assessment.rule_anchor]
    IN  IF assessment.due_datetime # None
        THEN result @@ [due_datetime |-> serialize_datetime(assessment.due_datetime[1])]
        ELSE result

_deserialize_assessment(data) ==
    AssessmentTask(data.title, data.type,
                   IF "weight_percent" \in DOMAIN data THEN data.weight_percent ELSE None,
                   IF "due_datetime" \in DOMAIN data /\ data.due_datetime # ""
                   THEN Some(deserialize_datetime(data.due_datetime)) ELSE None,
                   IF "due_rule" \in DOMAIN data THEN data.due_rule ELSE "",
                   IF "rule_anchor" \in DOMAIN data THEN data.rule_anchor ELSE "",
                   IF "confidence" \in DOMAIN data THEN data.confidence ELSE 0,
                   IF "source_evidence" \in DOMAIN data THEN data.source_evidence ELSE "",
                   IF "needs_review" \in DOMAIN data THEN data.needs_review ELSE FALSE)

_serialize_extracted_data(data) ==
    [term |-> [term_name |-> data.term.term_name,
               start_date |-> serialize_date(data.term.start_date),
               end_date |-> serialize_date(data.term.end_date),
               timezone |-> data.term.timezone],
     lecture_sections |-> [k \in 1..Len(data.lecture_sections) |->
                              _serialize_section(data.lecture_sections[k])],
     lab_sections |-> [k \in 1..Len(data.lab_sections) |->
                          _serialize_section(data.lab_sections[k])],
     assessments |-> [k \in 1..Len(data.assessments) |->
                         _serialize_assessment(data.assessments[k])],
     course_code |-> data.course_code,
     course_name |-> data.course_name]

_deserialize_extracted_data(data) ==
    ExtractedCourseData(
        CourseTerm(data.term.term_name,
                   deserialize_date(data.term.start_date),
                   deserialize_date(data.term.end_date),
                   IF "timezone" \in DOMAIN data.term THEN data.term.timezone
                   ELSE "America/Toronto"),
        [k \in 1..Len(data.lecture_sections) |-> _deserialize_section(data.lecture_sections[k])],
        [k \in 1..Len(data.lab_sections) |-> _deserialize_section(data.lab_sections[k])],
        [k \in 1..Len(data.assessments) |-> _deserialize_assessment(data.assessments[k])],
        data.course_code,
        data.course_name)

\* the dict of _serialize_selections: assessment_overrides always, a
\* section only when one is selected
_serialize_selections(selections) ==
    LET overrides == [assessment_overrides |->
                         [k \in DOMAIN selections.assessment_overrides |->
                             _serialize_assessment(selections.assessment_overrides[k])]]
        lecture == IF selections.selected_lecture_section # None
                   THEN [selected_lecture_section |->
                            _serialize_section(selections.selected_lecture_section[1])]
                   ELSE <<>>
        lab == IF selections.selected_lab_section # None
               THEN [selected_lab_section |->
                        _serialize_section(selections.selected_lab_section[1])]
               ELSE <<>>
    IN  overrides @@ lecture @@ lab

_deserialize_selections(data) ==
    UserSelections(
        IF "selected_lecture_section" \in DOMAIN data /\ data.selected_lecture_section # None
        THEN Some(_deserialize_section(data.selected_lecture_section[1])) ELSE None,
        IF "selected_lab_section" \in DOMAIN data /\ data.selected_lab_section # None
        THEN Some(_deserialize_section(data.selected_lab_section[1])) ELSE None,
        IF "assessment_overrides" \in DOMAIN data
        THEN [k \in DOMAIN data.assessment_overrides |->
                 _deserialize_assessment(data.assessment_overrides[k])]
        ELSE <<>>)

\* A CacheManager is the record of its two tables, extraction_cache and
\* user_choices.

\* the row of user_choices with the greatest timestamp among those the
\* WHERE clause keeps (ORDER BY timestamp DESC LIMIT 1), or None
LatestRow(rows, Keeps(_)) ==
    LET kept == { k \in 1..Len(rows) : Keeps(rows[k]) }
    IN  IF kept = {} THEN None
        ELSE Some(rows[CHOOSE k \in kept : \A j \in kept : rows[j].timestamp <= rows[k].timestamp])

\* lookup_extraction
lookup_extraction(self, pdf_hash) ==
    IF pdf_hash \notin DOMAIN self.extraction_cache THEN None
    ELSE Some(_deserialize_extracted_data(self.extraction_cache[pdf_hash].extracted_json))

\* lookup_user_choices; session_id is None or Some(id), and "if session_id"
\* takes the empty id for none
lookup_user_choices(self, pdf_hash, session_id) ==
    LET row == IF session_id # None /\ session_id # Some("")
               THEN LatestRow(self.user_choices,
                              LAMBDA r : r.pdf_hash = pdf_hash /\ r.session_id = session_id)
               ELSE LatestRow(self.user_choices, LAMBDA r : r.pdf_hash = pdf_hash)
    IN  IF row = None THEN None
        ELSE Some(_deserialize_selections(
                 [selected_lecture_section |-> row[1].selected_lecture_section_json,
                  selected_lab_section |-> row[1].selected_lab_section_json,
                  lead_time_overrides |-> row[1].lead_time_overrides_json]))

\* lookup (the legacy method); now is datetime.now()
lookup(self, pdf_hash, now) ==
    LET extracted_data == lookup_extraction(self, pdf_hash)
        found == lookup_user_choices(self, pdf_hash, None)
    IN  IF extracted_data = None THEN None
        ELSE Some(CacheEntry(pdf_hash, extracted_data[1],
                             IF found = None THEN UserSelections(None, None, <<>>) ELSE found[1],
                             "", now))

\* a store_extraction whose INSERT leaves an existing row as it is
store_extraction_KeepsFirst(self, pdf_hash, extracted_data, now) ==
    IF pdf_hash \in DOMAIN self.extraction_cache THEN self
    ELSE [self EXCEPT !.extraction_cache =
             (pdf_hash :> [extracted_json |-> _serialize_extracted_data(extracted_data),
                           timestamp |-> now]) @@ @]

\* store_extraction: INSERT OR REPLACE on the primary key pdf_hash
store_extraction(self, pdf_hash, extracted_data, now) ==
    [self EXCEPT !.extraction_cache =
        (pdf_hash :> [extracted_json |-> _serialize_extracted_data(extracted_data),
                      timestamp |-> now]) @@ @]

\* store_user_choices: INSERT of a new row; the columns hold
\* json.dumps(selections_dict.get(...)), null for a key that is not there
store_user_choices(self, pdf_hash, user_selections, session_id, now) ==
    LET selections_dict == _serialize_selections(user_selections)
        get(key) == IF key \in DOMAIN selections_dict THEN Some(selections_dict[key]) ELSE None
    IN  [self EXCEPT !.user_choices =
            Append(@, [pdf_hash |-> pdf_hash, session_id |-> session_id,
                       selected_lecture_section_json |-> get("selected_lecture_section"),
                       selected_lab_section_json |-> get("selected_lab_section"),
                       lead_time_overrides_json |-> IF "lead_time_overrides" \in DOMAIN selections_dict
                                                    THEN selections_dict["lead_time_overrides"]
                                                    ELSE <<>>,
                       timestamp |-> now])]

\* store (the legacy method): both stores, each with its own
\* datetime.now(); generated_ics is not stored
store(self, pdf_hash, extracted_data, generated_ics, user_selections, now) ==
    store_user_choices(store_extraction(self, pdf_hash, extracted_data, now),
                       pdf_hash, user_selections, None, now + 1)

-----------------------------------------------------------------------------
(* The cache's callers: app.py stores an extraction after a PDF is         *)
(* processed and the choices after the review form; the tests call the     *)
(* legacy store and lookup.                                                *)

PdfHashes == {"h1", "h2"}
SessionIds == {None, Some("s1")}

\* a SectionOption with the fields the cache keeps besides those above
ScheduledSection(section, end_time, location) ==
    section @@ [end_time |-> end_time, location |-> location]

LectureA == ScheduledSection(SectionOption("Lecture", "001", <<0, 2>>, 9, None), 10, None)
LectureB ==
    ScheduledSection(SectionOption("Lecture", "002", <<1>>, 13, Some(<<2, 90>>)), 15, Some("MC 110"))
LabA == ScheduledSection(SectionOption("Lab", "", <<4>>, 14, Some(<<57, 330>>)), 17, Some("HSB 14"))

\* the extractions a caller stores: with and without a code, a name,
\* sections, a due date, a weight, a date range
ExtractionPool ==
    { ExtractedCourseData(CourseTerm("Fall 2026", 245, 338, "America/Toronto"),
                          <<LectureA, LectureB>>, <<LabA>>,
                          << AssessmentTask("Midterm", "midterm", Some(30), Some(combine(283, 23)),
                                            "", "", 9000, "Midterm 30% Oct 15", FALSE),
                             AssessmentTask("Lab Report 1", "lab_report", None, None,
                                            "24 hours after lab", "lab", 6000, "", TRUE) >>,
                          Some("CS 2210"), Some("Data Structures")),
      ExtractedCourseData(CourseTerm("Winter 2026", 0, 85, "UTC"),
                          <<>>, <<>>,
                          << AssessmentTask("Final Exam", "final", Some(40), Some(combine(101, 0)),
                                            "", "", 10000, "Final Exam 40%", FALSE) >>,
                          None, None),
      ExtractedCourseData(CourseTerm("Fall 2026", 245, 338, "America/Toronto"),
                          <<LectureB>>, <<>>, <<>>, Some("CS 2210"), None) }

\* the choices a caller stores: none, sections, a corrected assessment
SelectionPool ==
    { UserSelections(None, None, <<>>),
      UserSelections(Some(LectureB), Some(LabA), <<>>),
      UserSelections(Some(LectureA), None, <<>>),
      UserSelections(Some(LectureA), None,
                     "Midterm" :> AssessmentTask("Midterm", "midterm", Some(35), Some(combine(284, 9)),
                                                 "", "", 10000, "", FALSE)) }

InitCache ==
    /\ pc = "open"
    /\ extraction_cache = <<>>
    /\ user_choices = <<>>
    /\ clock = 0
    /\ last_stored = <<>>
    /\ last_choices = <<>>
    /\ cache_result = None
    /\ OnlyCache

\* cache_manager.store_extraction(pdf_hash, extracted_data)
StoreExtraction ==
    /\ pc = "open"
    /\ clock < MaxStores
    /\ \E pdf_hash \in PdfHashes, extracted_data \in ExtractionPool :
          /\ \E self \in {store_extraction([extraction_cache |-> extraction_cache,
                                            user_choices |-> user_choices],
                                           pdf_hash, extracted_data, clock)} :
                extraction_cache' = self.extraction_cache
          /\ last_stored' = (pdf_hash :> extracted_data) @@ last_stored
    /\ clock' = clock + 1
    /\ UNCHANGED <<pc, user_choices, last_choices, cache_result, besidesCache>>

\* cache_manager.store_user_choices(pdf_hash, user_selections, session_id)
StoreUserChoices ==
    /\ pc = "open"
    /\ clock < MaxStores
    /\ \E pdf_hash \in PdfHashes, user_selections \in SelectionPool, session_id \in SessionIds :
          \E self \in {store_user_choices([extraction_cache |-> extraction_cache,
                                           user_choices |-> user_choices],
                                          pdf_hash, user_selections, session_id, clock)} :
             /\ user_choices' = self.user_choices
             /\ last_choices' = (<<pdf_hash, session_id>> :> user_selections) @@ last_choices
    /\ clock' = clock + 1
    /\ UNCHANGED <<pc, extraction_cache, last_stored, cache_result, besidesCache>>

\* cache_manager.store(pdf_hash, extracted_data, generated_ics, user_selections)
Store ==
    /\ pc = "open"
    /\ clock + 1 < MaxStores
    /\ \E pdf_hash \in PdfHashes, extracted_data \in ExtractionPool,
          generated_ics \in {"", "BEGIN:VCALENDAR"}, user_selections \in SelectionPool :
          /\ \E self \in {store([extraction_cache |-> extraction_cache,
                                 user_choices |-> user_choices],
                                pdf_hash, extracted_data, generated_ics, user_selections,
                                clock)} :
                /\ extraction_cache' = self.extraction_cache
                /\ user_choices' = self.user_choices
          /\ last_stored' = (pdf_hash :> extracted_data) @@ last_stored
          /\ last_choices' = (<<pdf_hash, None>> :> user_selections) @@ last_choices
    /\ clock' = clock + 2
    /\ UNCHANGED <<pc, cache_result, besidesCache>>

\* cache_manager.lookup_extraction(pdf_hash)
LookupExtraction ==
    /\ pc = "open"
    /\ \E pdf_hash \in PdfHashes :
          cache_result' = <<"lookup_extraction", pdf_hash,
                            lookup_extraction([extraction_cache |-> extraction_cache,
                                               user_choices |-> user_choices], pdf_hash)>>
    /\ UNCHANGED <<pc, extraction_cache, user_choices, clock, last_stored, last_choices, besidesCache>>

\* cache_manager.lookup_user_choices(pdf_hash, session_id)
LookupUserChoices ==
    /\ pc = "open"
    /\ \E pdf_hash \in PdfHashes, session_id \in SessionIds :
          cache_result' = <<"lookup_user_choices", pdf_hash,
                            lookup_user_choices([extraction_cache |-> extraction_cache,
                                                 user_choices |-> user_choices],
                                                pdf_hash, session_id)>>
    /\ UNCHANGED <<pc, extraction_cache, user_choices, clock, last_stored, last_choices, besidesCache>>

\* cache_manager.lookup(pdf_hash)
Lookup ==
    /\ pc = "open"
    /\ \E pdf_hash \in PdfHashes :
          cache_result' = <<"lookup", pdf_hash,
                            lookup([extraction_cache |-> extraction_cache,
                                    user_choices |-> user_choices], pdf_hash, clock)>>
    /\ UNCHANGED <<pc, extraction_cache, user_choices, clock, last_stored, last_choices, besidesCache>>

NextCache ==
    \/ StoreExtraction
    \/ StoreUserChoices
    \/ Store
    \/ LookupExtraction
    \/ LookupUserChoices
    \/ Lookup

SpecCache == InitCache /\ [][NextCache]_vars

-----------------------------------------------------------------------------
(* Claims about the cache *)

\* C19: whatever has been stored, lookup and lookup_extraction return None
\* for every PDF hash no extraction was stored for, and for every other
\* hash lookup_extraction returns data equal to the extraction stored for
\* it last.
C19_LookupReturnsLastStored ==
    pc = "open" =>
        \E self \in {[extraction_cache |-> extraction_cache, user_choices |-> user_choices]} :
            \A h \in PdfHashes :
                  IF h \in DOMAIN last_stored
                  THEN lookup_extraction(self, h) = Some(last_stored[h])
                  ELSE lookup_extraction(self, h) = None /\ lookup(self, h, clock) = None

\* a second extraction replaced the first under h1, choices alone were
\* stored under h2, and lookup_extraction was asked for h1
C19_Witness ==
    /\ pc = "open"
    /\ clock = MaxStores
    /\ "h1" \in DOMAIN last_stored
    /\ "h2" \notin DOMAIN last_stored
    /\ last_stored["h1"].course_name = None
    /\ Len(user_choices) = 1
    /\ user_choices[1].pdf_hash = "h2"
    /\ user_choices[1].timestamp = 0
    /\ extraction_cache["h1"].timestamp = 2
    /\ cache_result = <<"lookup_extraction", "h1", Some(last_stored["h1"])>>

-----------------------------------------------------------------------------
(* Claims about reconstructed tables *)

\* the rows of the reconstructed tables, each the <<item, weight>> texts of
\* one qualifying line
ReconstructedRows ==
    LET rebuilt == SelectSeq(structure.tables, LAMBDA t : t.table_type = "reconstructed")
    IN  Flatten([k \in 1..Len(rebuilt) |-> rebuilt[k].rows])

\* <<title, weight>> of the candidates made from reconstructed tables
ReconstructedCandidates ==
    LET made == SelectSeq(from_tables, LAMBDA c : c.source_method = "reconstructed")
    IN  [k \in 1..Len(made) |-> <<made[k].title, made[k].weight>>]

\* C20: each of the n >= 2 qualifying lines of a reconstructed table is a
\* data row: the candidates made from the table are, in order, one for
\* every line whose item text passes the name checks, with that line's
\* item text as the title and that line's weight.
C20_EveryLineIsDataRow ==
    pc = "generated" =>
        \E named \in {SelectSeq(ReconstructedRows, HasValidName)} :
            ReconstructedCandidates
                = [k \in 1..Len(named) |-> <<_clean_cell(named[k][1]), RowWeight(named[k])>>]

\* the lines after the first of each reconstructed table are data rows
C20_LaterLinesAreDataRows ==
    pc = "generated" =>
        \E rebuilt \in {SelectSeq(structure.tables, LAMBDA t : t.table_type = "reconstructed")} :
            \E named \in {SelectSeq(Flatten([k \in 1..Len(rebuilt) |-> Tail(rebuilt[k].rows)]),
                                    HasValidName)} :
                ReconstructedCandidates
                    = [k \in 1..Len(named) |-> <<_clean_cell(named[k][1]), RowWeight(named[k])>>]

-----------------------------------------------------------------------------
(* Claims about bonus candidates *)

\* the bonus indicators of a title
BonusWords == { "bonus", "extra credit", "optional", "up to" }

\* C21: every candidate given to select whose title contains a bonus
\* indicator, whatever its source, is treated as bonus: it is not among the
\* core candidates whose weights are summed, and it is in the output.
C21_BonusByTitle ==
    pc = "extracted" =>
        \E filtered \in {SelectSeq(all_candidates, IsKept)} :
            \A k \in 1..Len(filtered) :
                ContainsAny(Lower(filtered[k].title), BonusWords) =>
                    /\ \A j \in 1..Len(CoreOf(filtered)) : CoreOf(filtered)[j].cid # filtered[k].cid
                    /\ \E j \in 1..Len(selected_candidates) :
                          selected_candidates[j].cid = filtered[k].cid

\* the same for the candidates made from tables
C21_BonusByTitleInTables ==
    pc = "extracted" =>
        \E filtered \in {SelectSeq(all_candidates, IsKept)} :
            \A k \in 1..Len(filtered) :
                (filtered[k].is_in_table /\ ContainsAny(Lower(filtered[k].title), BonusWords)) =>
                    /\ \A j \in 1..Len(CoreOf(filtered)) : CoreOf(filtered)[j].cid # filtered[k].cid
                    /\ \E j \in 1..Len(selected_candidates) :
                          selected_candidates[j].cid = filtered[k].cid

-----------------------------------------------------------------------------
(* Claims about the scorer's features *)

\* the score of candidate c when the assessment-noun weight is (is not)
\* among its addends
ScoreWithNoun(c, noun) ==
    FloatSum(<< c.weight # None /\ 0 < WeightOrZero(c) /\ WeightOrZero(c) <= 100,
                noun, c.is_in_evaluation_section, c.is_in_table, c.looks_like_title >>)

\* C22: for every candidate that reaches the scorer, whatever its source,
\* the score includes the 0.25 assessment-noun weight if and only if the
\* candidate's title contains a recognized assessment noun.
C22_NounWeightIffNounInTitle ==
    pc = "extracted" =>
        \A k \in 1..Len(all_candidates) :
            IsKept(all_candidates[k]) =>
                all_candidates[k].score
                    = ScoreWithNoun(all_candidates[k], _has_assessment_noun(all_candidates[k].title))

\* the same for the candidates of generate_candidates (tables and inline text)
C22_NounWeightOfGenerated ==
    pc = "extracted" =>
        \A k \in 1..Len(all_candidates) :
            (IsKept(all_candidates[k])
                /\ all_candidates[k].source_method \notin {"raw_pdf", "special_pattern"}) =>
                all_candidates[k].score
                    = ScoreWithNoun(all_candidates[k], _has_assessment_noun(all_candidates[k].title))

\* C23: when the document has an evaluation section, every candidate made
\* from a table (native or reconstructed) is flagged in-evaluation-section
\* by the generator, and the score of each that reaches the scorer includes
\* the 0.20 section weight.
C23_TableCandidatesInSection ==
    (pc = "extracted" /\ doc.has_section) =>
        \A k \in 1..Len(all_candidates) :
            all_candidates[k].is_in_table =>
                /\ all_candidates[k].is_in_evaluation_section
                /\ IsKept(all_candidates[k]) =>
                      all_candidates[k].score
                          = FloatSum(<< all_candidates[k].weight # None
                                            /\ 0 < WeightOrZero(all_candidates[k])
                                            /\ WeightOrZero(all_candidates[k]) <= 100,
                                        all_candidates[k].has_assessment_noun, TRUE,
                                        all_candidates[k].is_in_table,
                                        all_candidates[k].looks_like_title >>)

-----------------------------------------------------------------------------
(* document_structure.py: positions and sections *)

\* Section.contains
contains(section, page_num, y) ==
    IF page_num < section.start_page \/ page_num > section.end_page THEN FALSE
    ELSE IF page_num = section.start_page /\ y < section.start_y THEN FALSE
    ELSE IF page_num = section.end_page /\ y > section.end_y THEN FALSE
    ELSE TRUE

\* DocumentStructure.get_text_in_section: the texts that "\n".join joins
get_text_in_section(self, section) ==
    LET inside == SelectSeq(self.blocks, LAMBDA block : contains(section, block.page_num, block.y0))
    IN  [k \in 1..Len(inside) |-> inside[k].text]

\* the sections (by index) that contain the position of the k-th fragment
\* of the document, and whose text so holds the fragment's text
SectionsHolding(k) ==
    { i \in 1..Len(structure.sections) :
        /\ contains(structure.sections[i], structure.blocks[k].page_num, structure.blocks[k].y0)
        /\ \E n \in 1..Len(get_text_in_section(structure, structure.sections[i])) :
              get_text_in_section(structure, structure.sections[i])[n] = structure.blocks[k].text }

\* C24: the sections partition the document after the first heading: no
\* position of a fragment is contained in two different sections, so the
\* text of a fragment is returned by get_text_in_section for at most one
\* section.
C24_SectionsDisjoint ==
    Structured =>
        \A k \in 1..Len(structure.blocks) : Cardinality(SectionsHolding(k)) <= 1

\* away from the positions of the headings, no fragment is in two sections
C24_DisjointBetweenHeadings ==
    Structured =>
        \A k \in 1..Len(structure.blocks) :
            (\A h \in 1..Len(structure.headings) :
                <<structure.headings[h].page_num, structure.headings[h].y0>>
                    # <<structure.blocks[k].page_num, structure.blocks[k].y0>>)
                => Cardinality(SectionsHolding(k)) <= 1

-----------------------------------------------------------------------------
(* Claims about the inline-text source *)

\* the candidates _from_inline_patterns returned, as extract keeps them
InlineCandidates ==
    SelectSeq(all_candidates,
              LAMBDA c : c.source_method \in {"inline", "inline_table", "inline_keyword"})

\* C25: no two candidates of the inline-text source carry the same
\* case-insensitive title with the same weight: a match whose (title, weight)
\* pair is already captured is skipped.
C25_NoDuplicateInlinePair ==
    pc = "extracted" =>
        \E found \in {InlineCandidates} :
            \A i, j \in 1..Len(found) :
                (i # j /\ Lower(found[i].title) = Lower(found[j].title))
                    => found[i].weight # found[j].weight

\* the same for the matches of patterns 3 and 4 against everything captured
\* before them
C25_LoosePatternsSkipDuplicates ==
    pc = "extracted" =>
        \E found \in {InlineCandidates} :
            \A i, j \in 1..Len(found) :
                (i < j /\ found[j].source_method \in {"inline_table", "inline_keyword"}
                    /\ Lower(found[i].title) = Lower(found[j].title))
                    => found[i].weight # found[j].weight

-----------------------------------------------------------------------------
(* AssessmentExtractor.get_debug_info and repeated runs *)

\* get_debug_info of an extractor with the lists `lists` on `document`
\* (of the evaluation section, whether it was found)
get_debug_info(document, lists) ==
    [evaluation_section |-> [found |-> document.has_section],
     tables_found |-> Len(document.tables),
     total_candidates |-> Len(lists.all_candidates),
     rejected_candidates |->
        [k \in 1..Len(lists.rejected_candidates) |->
            [title |-> lists.rejected_candidates[k].title,
             reason |-> lists.rejected_candidates[k].rejection_reason]],
     selected_candidates |->
        [k \in 1..Len(lists.selected_candidates) |->
            [title |-> lists.selected_candidates[k].title,
             weight |-> lists.selected_candidates[k].weight,
             score |-> lists.selected_candidates[k].score]],
     total_weight |-> SumWeights(lists.selected_candidates)]

\* C26: no state carries from one run to the next: a second extract() on
\* the same extractor and document returns the same tasks and leaves the
\* same diagnostic lists (all candidates, rejected candidates with reasons,
\* selected candidates, total weight) as the first.
C26_SecondRunSameAsFirst ==
    (pc = "extracted" /\ runs = 2) =>
        \E first \in {extract(doc, 1, <<>>)} :
            /\ extracted = first.tasks
            /\ get_debug_info(doc, [all_candidates |-> all_candidates,
                                    rejected_candidates |-> rejected_candidates,
                                    selected_candidates |-> selected_candidates])
                  = get_debug_info(doc, first)

\* the tasks, and the lists other than the rejected one, are the same
C26_SecondRunSameButRejected ==
    (pc = "extracted" /\ runs = 2) =>
        \E first \in {extract(doc, 1, <<>>)} :
            \E second \in {get_debug_info(doc, [all_candidates |-> all_candidates,
                                                rejected_candidates |-> rejected_candidates,
                                                selected_candidates |-> selected_candidates])} :
                /\ extracted = first.tasks
                /\ [second EXCEPT !.rejected_candidates = <<>>]
                      = [get_debug_info(doc, first) EXCEPT !.rejected_candidates = <<>>]

-----------------------------------------------------------------------------
(* Claims about the selector's subset *)

\* the deduplicated core candidates of the input, in the order of the
\* greedy loop
DeduplicatedCore == Deduplicate(SortedDescending(CoreOf(candidates)))

\* some subset of the deduplicated core candidates has a weight sum in the
\* band [90, 110]
SomeSubsetInBand ==
    \E picked \in SUBSET (1..Len(DeduplicatedCore)) :
        WithinTolerance(SumWeights(SelectSeq(DeduplicatedCore,
                                             LAMBDA c : \E k \in picked : DeduplicatedCore[k].cid = c.cid)))

-----------------------------------------------------------------------------
(* Claims about the stored user choices *)

\* C28: after store_user_choices(h, u, s), lookup_user_choices(h, s) returns
\* the selections most recently stored for PDF hash h and session s, equal
\* to u in the selected lecture section, the selected lab section and the
\* assessment overrides, and never the selections stored under a different
\* session id.
C28_ChoicesRoundTrip ==
    pc = "open" =>
        \E self \in {[extraction_cache |-> extraction_cache, user_choices |-> user_choices]} :
            \A h \in PdfHashes, s \in SessionIds :
                <<h, s>> \in DOMAIN last_choices =>
                    lookup_user_choices(self, h, s) = Some(last_choices[<<h, s>>])

\* for a session id that is given, the two selected sections come back as
\* they were stored for that hash and session
C28_SectionsOfGivenSession ==
    pc = "open" =>
        \E self \in {[extraction_cache |-> extraction_cache, user_choices |-> user_choices]} :
            \A h \in PdfHashes, s \in SessionIds \ {None} :
                <<h, s>> \in DOMAIN last_choices =>
                    \E found \in {lookup_user_choices(self, h, s)} :
                        /\ found # None
                        /\ found[1].selected_lecture_section
                              = last_choices[<<h, s>>].selected_lecture_section
                        /\ found[1].selected_lab_section
                              = last_choices[<<h, s>>].selected_lab_section

-----------------------------------------------------------------------------
(* Claims about what is selected and emitted *)

\* the candidates extract gave to select (the objects of the last run that
\* the filter did not reject)
Filtered == SelectSeq(all_candidates, IsKept)

\* C29: select returns only candidates of its input, each at most once, and
\* none that carries a rejection reason; after extract the rejected list and
\* the selected list are disjoint, and every emitted task comes from exactly
\* one selected candidate (the k-th task from the k-th selected candidate).
C29_SelectedFromInputOnce ==
    pc = "extracted" =>
        /\ \A k \in 1..Len(selected_candidates) :
              /\ \E i \in 1..Len(Filtered) : Filtered[i] = selected_candidates[k]
              /\ selected_candidates[k].rejection_reason = ""
              /\ \A j \in 1..Len(selected_candidates) :
                    j # k => selected_candidates[j].cid # selected_candidates[k].cid
              /\ \A j \in 1..Len(rejected_candidates) :
                    rejected_candidates[j].cid # selected_candidates[k].cid
        /\ Len(extracted) = Len(selected_candidates)
        /\ \A k \in 1..Len(extracted) :
              /\ extracted[k].title = selected_candidates[k].title
              /\ extracted[k].weight_percent = selected_candidates[k].weight
              /\ extracted[k].due_datetime = selected_candidates[k].due_date
              /\ extracted[k].confidence = selected_candidates[k].score
              /\ extracted[k].source_evidence = selected_candidates[k].raw_evidence

\* a run with a rejected candidate and an over-count in which the selector
\* left a candidate out, with a task emitted
C29_Witness ==
    /\ pc = "extracted"
    /\ rejected_candidates # <<>>
    /\ Len(selected_candidates) >= 1
    /\ Len(selected_candidates) < Len(Filtered)
    /\ Len(extracted) = Len(selected_candidates)

\* select alone: the output holds only candidates of the input, each at
\* most once
C29_SelectReturnsInputOnce ==
    pc = "selected" =>
        \A k \in 1..Len(selected) :
            /\ \E i \in 1..Len(candidates) : candidates[i] = selected[k]
            /\ \A j \in 1..Len(selected) : j # k => selected[j].cid # selected[k].cid

-----------------------------------------------------------------------------
(* Claims about a second pass of the resolver *)

\* C30: resolve_rules is idempotent on its own result: a second pass with the
\* same sections and term over the list the first pass returned changes no
\* task; due_datetime, confidence (the 0.2 is added once) and needs_review
\* are the same after the second pass as after the first.
C30_SecondPassChangesNothing ==
    (pc = "resolved" /\ passes = 2) =>
        /\ Len(resolved) = Len(entered)
        /\ \A i \in 1..Len(entered) :
              /\ resolved[i].due_datetime = entered[i].due_datetime
              /\ resolved[i].confidence = entered[i].confidence
              /\ resolved[i].needs_review = entered[i].needs_review
              /\ resolved[i] = entered[i]

\* after the second pass: a task the first pass dated and raised from 0.5 to
\* 0.7, still at 0.7, beside a task no pass could date, still flagged
C30_Witness ==
    /\ pc = "resolved"
    /\ passes = 2
    /\ \E i, j \in 1..Len(resolved) :
          /\ resolved[i].due_rule # "" /\ resolved[i].due_datetime # None
          /\ resolved[i].title = "Lab Report" /\ resolved[i].confidence = 7000
          /\ resolved[i].needs_review
          /\ resolved[j].due_rule # "" /\ resolved[j].due_datetime = None
          /\ resolved[j].needs_review

====
